---- MODULE Spec2Model ----
(***************************************************************************)
(* A model of workerd's server.c++: the assembly of the service graph      *)
(* (Server::run, makeService, makeWorker, lookupService), the HTTP         *)
(* listener, the header rewriter and the disk directory service.           *)
(***************************************************************************)
EXTENDS Integers, Sequences, FiniteSets, Bags, TLC

VARIABLES
  config,            \* the decoded config::Config handed to Server::run
  pc,                \* position of Server::run; "serving" once it has returned to the event loop
  ip,                \* index of the descriptor the current loop of Server::run is at
  services,          \* Server::services: name -> key of the forked promise registered for it
  promise,           \* per service descriptor: state and value of its forked promise
  ownServices,       \* Server::ownServices: service handle -> the object constructed
  coro,              \* per service descriptor: the makeWorker coroutine
  lookup,            \* per caller (worker, socket): its lookupService coroutine
  sock,              \* per socket descriptor: listener promise and HttpListener
  errors,            \* bag of the messages given to reportConfigError
  headerNames,       \* names added to the kj::HttpHeaderTable::Builder
  headerTableBuilt,  \* headerTableBuilder.build() has run
  fatal,             \* fatalFulfiller->reject() has run
  socketOverrides,   \* Server::socketOverrides: socket name -> address given on the command line
  externalOverrides, \* Server::externalOverrides: service name -> address
  directoryOverrides,\* Server::directoryOverrides: service name -> path
  conn,              \* the connection last accepted by an HttpListener
  req,               \* the request in progress: the chain of startRequest calls it made
  runPromise,        \* the promise Server::run returns
  waitUntilTasks,    \* WorkerService::waitUntilTasks of the workers, and what taskFailed logged
  httpListener,      \* an HttpListener taken on its own: its accept loop and its task set
  http,              \* an HttpRewriter and an HttpListener connection taken on their own
  disk,              \* a DiskDirectoryService taken on its own, with its directory
  svc                \* a Service taken on its own, with the WorkerInterfaces it returned

serverVars == <<config, pc, ip, services, promise, ownServices, coro, lookup, sock,
                errors, headerNames, headerTableBuilt, fatal,
                socketOverrides, externalOverrides, directoryOverrides, conn, req,
                runPromise, waitUntilTasks, httpListener>>

serverVarsButListener ==
  <<config, pc, ip, services, promise, ownServices, coro, lookup, sock,
    errors, headerNames, headerTableBuilt, fatal,
    socketOverrides, externalOverrides, directoryOverrides, conn, req,
    runPromise, waitUntilTasks>>

vars == <<serverVars, http, disk, svc>>

(***************************************************************************)
(* Bounds of the model.                                                    *)
(***************************************************************************)
MaxDepth == 2   \* startRequest calls chained in one request (listener, then sub-requests)

None == "none"  \* an empty kj::Maybe

(***************************************************************************)
(* Configuration values (config::HttpOptions, ServiceDesignator, Service,  *)
(* Socket).                                                                *)
(***************************************************************************)
Header(n, v) == [name |-> n, value |-> v]

HttpOptions(style, injReq, injResp, fwdProto, cfBlob) ==
  [style |-> style, injectRequest |-> injReq, injectResponse |-> injResp,
   forwardedProtoHeader |-> fwdProto, cfBlobHeader |-> cfBlob]

DefaultHttpOptions == HttpOptions("PROXY", <<>>, <<>>, None, None)

Designator(n, e) == [name |-> n, entrypoint |-> e]
NoDesignator == Designator(None, None)

Binding(k, d) == [kind |-> k, ref |-> d]

ServiceDesc(n, k) ==
  [name |-> n, kind |-> k,
   hasCompatibilityDate |-> TRUE, isServiceWorkerScript |-> FALSE,
   globalOutbound |-> NoDesignator, bindings |-> <<>>,
   entrypoints |-> {}, hasDefaultEntrypoint |-> TRUE,
   address |-> "cfg-addr", path |-> "cfg-path",
   options |-> DefaultHttpOptions, allow |-> {}]

WorkerDesc(n, out, bs, eps) ==
  [ServiceDesc(n, "worker") EXCEPT !.globalOutbound = Designator(out, None),
                                   !.bindings = bs, !.entrypoints = eps]

SocketDesc(n, d, o) ==
  [name |-> n, kind |-> "http", address |-> "cfg-addr", service |-> d, options |-> o,
   minVersion |-> "GOOD_DEFAULT"]

(***************************************************************************)
(* Service handles: what a kj::Own of Service points at.                   *)
(***************************************************************************)
InvalidConfigService == [obj |-> "invalid", idx |-> 0, entrypoint |-> None]
Service(i) == [obj |-> "service", idx |-> i, entrypoint |-> None]
DefaultInternet == [obj |-> "internet", idx |-> 0, entrypoint |-> None]
WorkerEntrypointService(i, e) == [obj |-> "entrypoint", idx |-> i, entrypoint |-> e]

ServiceObject(k, chans, eps, allow) ==
  [kind |-> k, subrequestChannels |-> chans, namedEntrypoints |-> eps, allow |-> allow]

(***************************************************************************)
(* Configuration errors.                                                   *)
(***************************************************************************)
Who(k, i, b) == [k |-> k, i |-> i, b |-> b]
ConfigError(e, who, n) == [err |-> e, who |-> who, name |-> n]
Report(es) == errors (+) SetToBag(es)

(***************************************************************************)
(* HttpRewriter's constructor: the header names it registers.              *)
(***************************************************************************)
InjectedNames(inj) == {inj[j].name : j \in 1..Len(inj)}

RewriterHeaders(o) ==
  InjectedNames(o.injectRequest) \cup InjectedNames(o.injectResponse)
    \cup (IF o.forwardedProtoHeader = None THEN {} ELSE {o.forwardedProtoHeader})
    \cup (IF o.cfBlobHeader = None THEN {} ELSE {o.cfBlobHeader})

(***************************************************************************)
(* The configurations explored.  Service names are "a", "b" and            *)
(* "internet"; "ghost" is a name no configuration declares.                *)
(***************************************************************************)
Svc(n) == Binding("service", Designator(n, None))
Text == Binding("text", NoDesignator)

EdgeOptions ==
  HttpOptions("HOST", <<Header("X-Api-Key", "secret")>>, <<>>, "X-Forwarded-Proto", "X-Cf-Blob")

ExternalDesc(n) == [ServiceDesc(n, "external") EXCEPT !.options = EdgeOptions]
NetworkDesc(n) == [ServiceDesc(n, "network") EXCEPT !.allow = {"private"}]
DiskDesc(n) == ServiceDesc(n, "disk")

WorkerShapes ==
  {<<o, <<>>>> : o \in {"internet", "a", "b", "ghost"}}
    \cup {<<"internet", <<Text, Svc(n)>>>> : n \in {"a", "b", "ghost"}}

FirstDescs == {WorkerDesc("a", sh[1], sh[2], {"ep"}) : sh \in WorkerShapes}

SecondDescs ==
  {WorkerDesc("b", o, <<>>, {}) : o \in {"internet", "a", "b"}}
    \cup {WorkerDesc("a", "internet", <<>>, {}),
          ExternalDesc("b"), DiskDesc("b"), NetworkDesc("internet")}

ThirdDescs ==
  {WorkerDesc("a", "b", <<>>, {}), WorkerDesc("internet", "internet", <<>>, {}),
   ExternalDesc("a")}

ServiceLists ==
  {<<x>> : x \in FirstDescs}
    \cup {<<x, y>> : x \in FirstDescs, y \in SecondDescs}
    \cup {<<x, y, z>> : x \in {f \in FirstDescs : f.bindings = <<>>},
                         y \in SecondDescs, z \in ThirdDescs}

SocketLists ==
  {<<SocketDesc("main", Designator(n, None), DefaultHttpOptions)>> :
      n \in {"a", "b", "internet"}}
    \cup {<<SocketDesc("main", Designator("a", "ep"), EdgeOptions)>>}

Configs == {[services |-> sv, sockets |-> so] : sv \in ServiceLists, so \in SocketLists}

NumServices == Len(config.services)
NumSockets == Len(config.sockets)

Owner(k, i) == <<k, i>>
Owners == {Owner("worker", i) : i \in 1..NumServices} \cup {Owner("socket", s) : s \in 1..NumSockets}

(***************************************************************************)
(* Initial state: the Server is constructed, Server::run has not started.  *)
(***************************************************************************)
IdleCoro == [pc |-> "none", k |-> 0, channels |-> <<>>, globals |-> <<>>]
IdleLookup == [state |-> "none", ref |-> NoDesignator, target |-> 0, result |-> InvalidConfigService]
\* A kj::TlsContext, by the one option of interest, and a socket's lack of one.
TlsContext(minVersion) == [minVersion |-> minVersion]
NoTls == TlsContext(None)
IdleSocket ==
  [listener |-> "none", address |-> None, accepting |-> FALSE, service |-> InvalidConfigService,
   tls |-> NoTls]
NoOverrides == [n \in {} |-> None]
NoConn == [sock |-> 0, cfBlobJson |-> None]
\* No startSubrequest of the request in progress has been recorded.
NoSubrequest ==
  [by |-> [entrypoint |-> None, obj |-> None, idx |-> 0], channel |-> 0,
   metadata |-> [cfBlobJson |-> None], error |-> None, invoked |-> <<>>]
NoRequest ==
  [state |-> "idle", sock |-> 0, status |-> 0, chain |-> <<>>, failedSubrequests |-> 0,
   started |-> FALSE, responses |-> 0, threw |-> FALSE, subrequest |-> NoSubrequest]

\* An HttpListener whose accept loop has not run: no connection yet, nothing logged.
NoListener == [accepting |-> FALSE, conns |-> <<>>, logged |-> 0]

\* The waitUntil task sets of the worker services: the workers that have a task
\* running, and those for which taskFailed has logged an exception.
NoTasks == [pending |-> {}, logged |-> {}]

ServerStartWith(c, socketAddrs, externalAddrs, directoryPaths) ==
  /\ config = c
  /\ pc = "services"
  /\ ip = 1
  /\ services = [n \in {} |-> 0]
  /\ promise = [i \in 1..NumServices |->
                  [state |-> "none", value |-> InvalidConfigService, address |-> None]]
  /\ ownServices = [h \in {} |-> 0]
  /\ coro = [i \in 1..NumServices |-> IdleCoro]
  /\ lookup = [o \in Owners |-> IdleLookup]
  /\ sock = [s \in 1..NumSockets |-> IdleSocket]
  /\ errors = EmptyBag
  /\ headerNames = {}
  /\ headerTableBuilt = FALSE
  /\ fatal = FALSE
  /\ socketOverrides = socketAddrs
  /\ externalOverrides = externalAddrs
  /\ directoryOverrides = directoryPaths
  /\ conn = NoConn
  /\ req = NoRequest
  /\ runPromise = "none"
  /\ waitUntilTasks = NoTasks
  /\ httpListener = NoListener

ServerStart(c) == ServerStartWith(c, NoOverrides, NoOverrides, NoOverrides)

(***************************************************************************)
(* Faulty variants of some definitions below, against which the properties *)
(* are tested: each property must fail for the variant named with it.      *)
(***************************************************************************)
\* upsert that lets the last declaration of a name replace the entry.
UpsertLastWins(reg, n, key) == [x \in DOMAIN reg \cup {n} |-> IF x = n THEN key ELSE reg[x]]

\* No default "internet" entry is created.
FindOnly(reg, n, key) == reg

\* Tasks run while Server::run is still enumerating the configuration.
EventLoopAlwaysRunning == TRUE

\* The rewriter of an external service is constructed once its address has resolved.
ExternalRewriterHeadersLate(stage, o) == IF stage = "resolved" THEN RewriterHeaders(o) ELSE {}

\* makeWorker that awaits no lookup for its bindings.
NoLookup(i, k) == 0

\* The forwarded-proto header is not consulted.
IncomingSchemePhysical(o, headers, physicalProtocol) == physicalProtocol

\* The cf blob header is not consulted.
IncomingCfBlobKept(o, headers, cfBlobJson) == cfBlobJson

\* A text put between quotes as it is (faulty variant).
Unescaped(text) == text

\* An erase that leaves the entry in the map (faulty variant).
WithoutErasing(f, n) == f

\* A toString that emits the absolute form whatever the context (faulty variant).
UrlToStringAbsolute(parsed, context) == parsed

\* A listing that leaves no entry out (faulty variant).
ListedEntriesAll(allowDotfiles, entries) == entries

\* Only dotfiles are blocked: a failure of the kj::Path constructor is not.
BlockedPathDotfilesOnly(allowDotfiles, path) ==
  ~allowDotfiles /\ \E k \in 1..Len(path) : path[k] \in {".", "..", ".hidden"}

(***************************************************************************)
(* Server::run, the synchronous part.  Nothing else runs until it returns  *)
(* its promise to the event loop.                                          *)
(***************************************************************************)
EventLoopRunning == pc = "serving"

\* kj::HashMap::upsert as called at line 1537: the update callback keeps the entry.
Upsert(reg, n, key) == IF n \in DOMAIN reg THEN reg ELSE reg @@ (n :> key)

\* kj::HashMap::findOrCreate as called at line 1543.
FindOrCreate(reg, n, key) == IF n \in DOMAIN reg THEN reg ELSE reg @@ (n :> key)

\* Where an external service's HttpRewriter is constructed: before parseAddress is awaited.
ExternalRewriterHeaders(stage, o) == IF stage = "makeService" THEN RewriterHeaders(o) ELSE {}

\* address is the address or path the service is made with, if it has one.
Made(st, v, es, hs) ==
  [state |-> st, value |-> v, errs |-> es, headers |-> hs, address |-> None]

\* A makeExternalService that fails on a missing address instead of reporting it
\* (faulty variant).
MakeExternalServiceThrowing(i) ==
  LET d == config.services[i]
      addrStr == IF d.name \in DOMAIN externalOverrides THEN externalOverrides[d.name]
                 ELSE d.address
  IN IF addrStr = None
       THEN Made("rejected", InvalidConfigService, {}, {})
       ELSE [Made("resolving", Service(i), {},
                  ExternalRewriterHeaders("makeService", d.options))
               EXCEPT !.address = addrStr]

MakeExternalService(i) ==
  LET d == config.services[i]
      addrStr == IF d.name \in DOMAIN externalOverrides THEN externalOverrides[d.name]
                 ELSE d.address
  IN IF addrStr = None
       THEN Made("constructed", InvalidConfigService,
                 {ConfigError("noAddress", Who("service", i, 0), d.name)}, {})
       ELSE [Made("resolving", Service(i), {},
                  ExternalRewriterHeaders("makeService", d.options))
               EXCEPT !.address = addrStr]

MakeDiskDirectoryService(i) ==
  LET d == config.services[i]
      pathStr == IF d.name \in DOMAIN directoryOverrides THEN directoryOverrides[d.name]
                 ELSE d.path
  IN IF pathStr = None
       THEN Made("constructed", InvalidConfigService,
                 {ConfigError("noPath", Who("service", i, 0), d.name)}, {})
     ELSE IF pathStr = "missing-dir"
       THEN Made("constructed", InvalidConfigService,
                 {ConfigError("directoryNotFound", Who("service", i, 0), d.name)}, {})
     ELSE [Made("constructed", Service(i), {}, {"Last-Modified"}) EXCEPT !.address = pathStr]

MakeService(i) ==
  LET d == config.services[i] IN
  CASE d.kind = "unspecified" ->
         Made("constructed", InvalidConfigService,
              {ConfigError("unspecifiedService", Who("service", i, 0), d.name)}, {})
    [] d.kind = "external" -> MakeExternalService(i)
    [] d.kind = "network" -> Made("constructed", Service(i), {}, {})
    [] d.kind = "worker" -> Made("coroutine", Service(i), {}, {})
    [] d.kind = "disk" -> MakeDiskDirectoryService(i)
    [] OTHER ->
         Made("constructed", InvalidConfigService,
              {ConfigError("unrecognizedService", Who("service", i, 0), d.name)}, {})

Without(f, n) == [x \in DOMAIN f \ {n} |-> f[x]]

ConfigureService ==
  /\ pc = "services"
  /\ LET i == ip
         d == config.services[i]
         made == MakeService(i)
         dup == IF d.name \in DOMAIN services
                  THEN {ConfigError("duplicateService", Who("service", i, 0), d.name)}
                  ELSE {}
     IN /\ promise' = [promise EXCEPT ![i] = [state |-> made.state, value |-> made.value,
                                              address |-> made.address]]
        /\ coro' = [coro EXCEPT ![i] =
                      IF d.kind = "worker" THEN [IdleCoro EXCEPT !.pc = "evalLater"] ELSE @]
        /\ headerNames' = headerNames \cup made.headers
        /\ errors' = Report(made.errs \cup dup)
        /\ services' = Upsert(services, d.name, i)
        /\ externalOverrides' =
             IF d.kind = "external" THEN Without(externalOverrides, d.name)
             ELSE externalOverrides
        /\ directoryOverrides' =
             IF d.kind = "disk" THEN Without(directoryOverrides, d.name)
             ELSE directoryOverrides
        /\ IF i < NumServices THEN ip' = i + 1 /\ pc' = pc
                              ELSE ip' = 1 /\ pc' = "internet"
  /\ UNCHANGED <<http, disk, svc, waitUntilTasks, httpListener, runPromise, config, ownServices, lookup, sock, headerTableBuilt, fatal,
                 socketOverrides, conn, req>>

MakeDefaultInternet ==
  /\ pc = "internet"
  /\ services' = FindOrCreate(services, "internet", 0)
  /\ ownServices' =
       IF services' = services THEN ownServices
       ELSE ownServices @@ (DefaultInternet :> ServiceObject("network", <<>>, {}, {"public"}))
  /\ pc' = IF NumSockets > 0 THEN "sockets" ELSE "report"
  /\ UNCHANGED <<http, disk, svc, waitUntilTasks, httpListener, runPromise, config, ip, promise, coro, lookup, sock, errors, headerNames,
                 headerTableBuilt, fatal, socketOverrides, externalOverrides,
                 directoryOverrides, conn, req>>

\* The listener promise as Server::run builds it (lines 1620-1634).  An override that
\* is a ConnectionReceiver needs no parseAddress and no listen; an https socket has its
\* port wrapped once there is one.
InheritedListener == "inherited-listener"
AfterListen(kind) == IF kind = "https" THEN "wrapping" ELSE "bound"
ListenerPromise(kind, addrStr) ==
  IF addrStr = InheritedListener THEN AfterListen(kind) ELSE "binding"

\* makeTlsContext (lines 144-201), as far as minVersion goes: each value of the enum
\* sets the option or leaves kj's default; any other value is reported, and the context
\* is built from the options all the same.
MadeTls(context, es) == [context |-> context, errs |-> es]
KjDefaultMinVersion == "TLS_1_2"
MakeTlsContext(minVersion, who, name) ==
  CASE minVersion = "GOOD_DEFAULT" -> MadeTls(TlsContext(KjDefaultMinVersion), {})
    [] minVersion = "SSL3" -> MadeTls(TlsContext("SSL_3"), {})
    [] minVersion = "TLS1_DOT0" -> MadeTls(TlsContext("TLS_1_0"), {})
    [] minVersion = "TLS1_DOT1" -> MadeTls(TlsContext("TLS_1_1"), {})
    [] minVersion = "TLS1_DOT2" -> MadeTls(TlsContext("TLS_1_2"), {})
    [] minVersion = "TLS1_DOT3" -> MadeTls(TlsContext("TLS_1_3"), {})
    [] OTHER -> MadeTls(TlsContext(KjDefaultMinVersion),
                         {ConfigError("unknownTlsMinVersion", who, name)})

StartSocket ==
  /\ pc = "sockets"
  /\ LET s == ip
         sd == config.sockets[s]
         overridden == sd.name \in DOMAIN socketOverrides
         addrStr == IF overridden THEN socketOverrides[sd.name] ELSE sd.address
         problem == IF addrStr = None THEN {ConfigError("noAddress", Who("socket", s, 0), sd.name)}
                    ELSE IF sd.kind \notin {"http", "https"}
                      THEN {ConfigError("unknownSocketType", Who("socket", s, 0), sd.name)}
                    ELSE {}
         tls == IF problem = {} /\ sd.kind = "https"
                  THEN MakeTlsContext(sd.minVersion, Who("socket", s, 0), sd.name)
                  ELSE MadeTls(NoTls, {})
     IN /\ lookup' = [lookup EXCEPT ![Owner("socket", s)] =
                        IF problem = {}
                          THEN [IdleLookup EXCEPT !.state = "evalLater", !.ref = sd.service]
                          ELSE [IdleLookup EXCEPT !.state = "cancelled"]]
        /\ socketOverrides' = Without(socketOverrides, sd.name)
        /\ errors' = Report(problem \cup tls.errs)
        /\ headerNames' = IF problem = {} THEN headerNames \cup RewriterHeaders(sd.options)
                          ELSE headerNames
        /\ sock' = [sock EXCEPT ![s] =
                      IF problem = {}
                        THEN [IdleSocket EXCEPT !.listener = ListenerPromise(sd.kind, addrStr),
                                                !.address = addrStr,
                                                !.tls = tls.context]
                        ELSE @]
        /\ IF s < NumSockets THEN ip' = s + 1 /\ pc' = pc
                             ELSE ip' = 1 /\ pc' = "report"
  /\ UNCHANGED <<http, disk, svc, waitUntilTasks, httpListener, runPromise, config, services, promise, ownServices, coro, headerTableBuilt, fatal,
                 externalOverrides, directoryOverrides, conn, req>>

ReportUnmatchedOverrides ==
  /\ pc = "report"
  /\ errors' = Report({ConfigError("unmatchedSocketOverride", Who("override", 0, 0), n) :
                          n \in DOMAIN socketOverrides}
                 \cup {ConfigError("unmatchedExternalOverride", Who("override", 0, 0), n) :
                          n \in DOMAIN externalOverrides}
                 \cup {ConfigError("unmatchedDirectoryOverride", Who("override", 0, 0), n) :
                          n \in DOMAIN directoryOverrides})
  /\ pc' = "build"
  /\ UNCHANGED <<http, disk, svc, waitUntilTasks, httpListener, runPromise, config, ip, services, promise, ownServices, coro, lookup, sock, headerNames,
                 headerTableBuilt, fatal, socketOverrides, externalOverrides,
                 directoryOverrides, conn, req>>

BuildHeaderTable ==
  /\ pc = "build"
  /\ headerTableBuilt' = TRUE
  /\ pc' = "serving"
  /\ runPromise' = "pending"
  /\ UNCHANGED <<http, disk, svc, waitUntilTasks, httpListener, config, ip, services, promise, ownServices, coro, lookup, sock, errors,
                 headerNames, fatal, socketOverrides, externalOverrides, directoryOverrides,
                 conn, req>>

(***************************************************************************)
(* kj::Url as server.c++ uses it.  A URL is [scheme, host, path]; the      *)
(* request-target (origin) form has neither scheme nor host.  The path is  *)
(* the sequence of its "/"-separated segments as written.                  *)
(***************************************************************************)
Url(scheme, host, path) == [scheme |-> scheme, host |-> host, path |-> path]
ParseFailure == Url("invalid", "invalid", <<>>)
NoUrl == Url(None, None, <<>>)

\* Percent-decoding of the segments the model uses.
PercentDecode(seg) ==
  CASE seg = "%2e%2e" -> ".."
    [] seg = "%2e" -> "."
    [] seg = "%2ehidden" -> ".hidden"
    [] seg = "a%2fb" -> "a/b"
    [] OTHER -> seg

\* The path loop of kj::Url::parse: ".." removes the segment before it, "." and (unless
\* allowEmpty) empty segments are dropped, the others are kept, decoded if percentDecode.
RECURSIVE ParsePath(_, _, _, _)
ParsePath(raw, acc, percentDecode, allowEmpty) ==
  IF raw = <<>> THEN acc
  ELSE LET part == Head(raw)
           rest == Tail(raw)
       IN IF part = ".."
            THEN ParsePath(rest, IF acc = <<>> THEN acc ELSE SubSeq(acc, 1, Len(acc) - 1),
                           percentDecode, allowEmpty)
          ELSE IF part = "." \/ (part = "" /\ (~allowEmpty \/ rest = <<>>))
            THEN ParsePath(rest, acc, percentDecode, allowEmpty)
          ELSE ParsePath(rest, Append(acc, IF percentDecode THEN PercentDecode(part) ELSE part),
                         percentDecode, allowEmpty)

\* kj::Url::parse(url, context, options): HTTP_PROXY_REQUEST wants the absolute form,
\* HTTP_REQUEST the origin form; anything else throws.
UrlParse(url, context, percentDecode, allowEmpty) ==
  LET absolute == url.scheme # None /\ url.host # None
      origin == url.scheme = None /\ url.host = None
  IN IF url = ParseFailure
          \/ (context = "HTTP_PROXY_REQUEST" /\ ~absolute)
          \/ (context = "HTTP_REQUEST" /\ ~origin)
          \/ (context = "REMOTE_HREF" /\ ~absolute)
       THEN ParseFailure
       ELSE Url(url.scheme, url.host, ParsePath(url.path, <<>>, percentDecode, allowEmpty))

\* kj::Url::toString(context): HTTP_REQUEST emits the path alone.
UrlToString(parsed, context) ==
  IF context = "HTTP_REQUEST" THEN Url(None, None, parsed.path) ELSE parsed

(***************************************************************************)
(* HttpRewriter.  Headers are a function from the header names of the      *)
(* model to a value or None (kj::HttpHeaders::get/set/unset by id).        *)
(***************************************************************************)
HeaderUniverse == {"Host", "X-Forwarded-Proto", "X-Cf-Blob", "X-Api-Key"}
NoHeaders == [n \in HeaderUniverse |-> None]

\* A HeaderInjector whose earlier entries prevail over later ones of the same name
\* (faulty variant).
RECURSIVE ApplyInjectorFirstWins(_, _)
ApplyInjectorFirstWins(inj, headers) ==
  IF inj = <<>> THEN headers
  ELSE [ApplyInjectorFirstWins(Tail(inj), headers) EXCEPT ![Head(inj).name] = Head(inj).value]

\* HeaderInjector::apply
RECURSIVE ApplyInjector(_, _)
ApplyInjector(inj, headers) ==
  IF inj = <<>> THEN headers
  ELSE ApplyInjector(Tail(inj), [headers EXCEPT ![Head(inj).name] = Head(inj).value])

HasCfBlobHeader(o) == o.cfBlobHeader # None

\* A test that forgets the cfBlobHeader (faulty variant).
NeedsRewriteRequestForgetful(o) == o.style = "HOST" \/ o.injectRequest # <<>>

NeedsRewriteRequest(o) ==
  o.style = "HOST" \/ o.cfBlobHeader # None \/ o.injectRequest # <<>>

NeedsRewriteResponse(o) == o.injectResponse # <<>>

RewriteResponse(o, headers) == ApplyInjector(o.injectResponse, headers)

\* What a call of send, acceptWebSocket or sendError on a response leaves behind: the
\* headers object the caller supplied as it is after the call, and the status and
\* headers that reached the response it was made on.
Emitted(verb, status, object, received) ==
  [verb |-> verb, status |-> status, object |-> object, received |-> received]
NoResponse == Emitted(None, 0, NoHeaders, NoHeaders)

\* A wrapper that rewrites the headers it was given, not a copy (faulty variant).
WrappedSendInPlace(o, verb, status, headers) ==
  Emitted(verb, status, RewriteResponse(o, headers), RewriteResponse(o, headers))

\* send and acceptWebSocket of HttpListener::Connection::ResponseWrapper (lines
\* 1440-1452) and, when the rewriter needs it, of ExternalHttpService's
\* WorkerInterfaceImpl (lines 458-480): cloneShallow, rewriteResponse on the clone, the
\* clone passed on.
WrappedSend(o, verb, status, headers) ==
  LET rewrite == headers
  IN Emitted(verb, status, headers, RewriteResponse(o, rewrite))

\* The same calls made on the response itself.
PlainSend(verb, status, headers) == Emitted(verb, status, headers, headers)

\* kj's Response::sendError(status, text, headerTable): headers made from the table.
SendError(status) ==
  Emitted("sendError", status, NoHeaders, NoHeaders)

Rewritten(r, u, h, cf) == [result |-> r, url |-> u, headers |-> h, cfBlobJson |-> cf]

RewriteOutgoingRequest(o, url, headers, cfBlobJson) ==
  LET parsed == UrlParse(url, "HTTP_PROXY_REQUEST", FALSE, TRUE)
      h1 == IF o.style = "HOST" THEN [headers EXCEPT !["Host"] = parsed.host] ELSE headers
      h2 == IF o.style = "HOST" /\ o.forwardedProtoHeader # None
              THEN [h1 EXCEPT ![o.forwardedProtoHeader] = parsed.scheme]
              ELSE h1
      u == IF o.style = "HOST" THEN UrlToString(parsed, "HTTP_REQUEST") ELSE url
      h3 == IF o.cfBlobHeader # None THEN [h2 EXCEPT ![o.cfBlobHeader] = cfBlobJson] ELSE h2
  IN IF o.style = "HOST" /\ parsed = ParseFailure
       THEN Rewritten("throw", url, headers, cfBlobJson)
       ELSE Rewritten("ok", u, ApplyInjector(o.injectRequest, h3), cfBlobJson)

\* Lines 302-309: the scheme of the rebuilt URL.
IncomingScheme(o, headers, physicalProtocol) ==
  IF o.forwardedProtoHeader # None /\ headers[o.forwardedProtoHeader] # None
    THEN headers[o.forwardedProtoHeader]
    ELSE physicalProtocol

\* A cf blob taken from the usual header whether or not the socket names it as its
\* cfBlobHeader (faulty variant).
IncomingCfBlobUnconfigured(o, headers, cfBlobJson) ==
  IF headers["X-Cf-Blob"] # None THEN headers["X-Cf-Blob"] ELSE cfBlobJson

\* Lines 314-319: the cf blob after the cfBlobHeader has been looked at.
IncomingCfBlob(o, headers, cfBlobJson) ==
  IF o.cfBlobHeader # None /\ headers[o.cfBlobHeader] # None
    THEN headers[o.cfBlobHeader]
    ELSE cfBlobJson

RewriteIncomingRequest(o, url, physicalProtocol, headers, cfBlobJson) ==
  LET parsed == UrlParse(url, "HTTP_REQUEST", FALSE, TRUE)
      fromHeader == o.forwardedProtoHeader # None /\ headers[o.forwardedProtoHeader] # None
      h1 == IF o.style = "HOST" /\ fromHeader
              THEN [headers EXCEPT ![o.forwardedProtoHeader] = None]
              ELSE headers
      u == IF o.style = "HOST"
             THEN UrlToString(Url(IncomingScheme(o, headers, physicalProtocol),
                                  headers["Host"], parsed.path), "HTTP_PROXY_REQUEST")
             ELSE url
      fromWire == o.cfBlobHeader # None /\ headers[o.cfBlobHeader] # None
      h2 == IF fromWire THEN [h1 EXCEPT ![o.cfBlobHeader] = None] ELSE h1
  IN IF o.style = "HOST" /\ parsed = ParseFailure
       THEN Rewritten("throw", url, headers, cfBlobJson)
     ELSE IF o.style = "HOST" /\ headers["Host"] = None
       THEN Rewritten("null", url, headers, cfBlobJson)
     ELSE Rewritten("ok", u, ApplyInjector(o.injectRequest, h2),
                    IncomingCfBlob(o, headers, cfBlobJson))

(***************************************************************************)
(* HttpListener: the blob describing the peer, and Connection::request.    *)
(***************************************************************************)
\* escapeJsonString on the texts the model uses.
EscapeJsonString(text) ==
  CASE text = "q\"uote" -> "q\\\"uote"
    [] text = "back\\slash" -> "back\\\\slash"
    [] OTHER -> text

\* kj::strArray(parts, ",")
RECURSIVE StrArray(_, _)
StrArray(parts, delim) ==
  IF parts = <<>> THEN ""
  ELSE IF Len(parts) = 1 THEN parts[1]
  ELSE parts[1] \o delim \o StrArray(Tail(parts), delim)

\* A peer identity: tls tells a kj::TlsPeerIdentity, whose network identity is the rest.
PeerIdentity(tls, kind, addr, pid, uid) ==
  [tls |-> tls, kind |-> kind, addr |-> addr, pid |-> pid, uid |-> uid]

ListenerCfBlob(o, peer) ==
  IF HasCfBlobHeader(o) THEN None
  ELSE CASE peer.kind = "network" ->
              "{\"clientIp\": \"" \o EscapeJsonString(peer.addr) \o "\"}"
         [] peer.kind = "local" ->
              "{" \o StrArray(
                       (IF peer.pid = <<>> THEN <<>>
                        ELSE <<"\"clientPid\":" \o ToString(peer.pid[1])>>)
                       \o (IF peer.uid = <<>> THEN <<>>
                           ELSE <<"\"clientUid\":" \o ToString(peer.uid[1])>>), ",") \o "}"
         [] OTHER -> None

Metadata(cf) == [cfBlobJson |-> cf]

\* What Connection::request does with a request: answer 400 itself, fail with an
\* exception, or call the service's startRequest and then request on the handle.
Dispatch(outcome, cf, u, h, wrapped) ==
  [outcome |-> outcome, metadata |-> Metadata(cf), url |-> u, headers |-> h,
   wrapped |-> wrapped]

ConnectionRequestPlan(o, physicalProtocol, connCfBlobJson, url, headers) ==
  LET rw == RewriteIncomingRequest(o, url, physicalProtocol, headers, connCfBlobJson)
      wrapped == NeedsRewriteResponse(o)
  IN IF NeedsRewriteRequest(o) \/ connCfBlobJson # None
       THEN CASE rw.result = "null" -> Dispatch("sendError400", connCfBlobJson, url, headers, FALSE)
              [] rw.result = "throw" -> Dispatch("exception", connCfBlobJson, url, headers, FALSE)
              [] OTHER -> Dispatch("startRequest", rw.cfBlobJson, rw.url, rw.headers, wrapped)
       ELSE Dispatch("startRequest", connCfBlobJson, url, headers, wrapped)

(***************************************************************************)
(* Service::startRequest of each implementation.  The result is the        *)
(* WorkerInterface it returns, or Thrown.                                   *)
(***************************************************************************)
WorkerInterface(h, k, ep, cf) ==
  [service |-> h, kind |-> k, entrypoint |-> ep, cfBlobJson |-> cf]
Thrown == WorkerInterface(InvalidConfigService, "thrown", None, None)

\* WorkerService::startRequest(metadata, entrypointName): WorkerEntrypoint::construct
WorkerStartRequest(h, metadata, entrypointName) ==
  WorkerInterface(h, "worker", entrypointName, metadata.cfBlobJson)

\* Channel numbers that do not count the two entries reserved for globalOutbound
\* (faulty variant).
GlobalUnreserved(k, kind, channel) ==
  [binding |-> k, kind |-> kind, channel |-> IF channel >= 2 THEN channel - 2 ELSE channel]

\* A startRequest that hands out a handle whatever the service (faulty variant).
StartRequestAlways(own, h, metadata) ==
  WorkerInterface(h, "worker", None, metadata.cfBlobJson)

StartRequest(own, h, metadata) ==
  CASE h.obj = "invalid" -> Thrown
    [] h.obj = "entrypoint" -> WorkerStartRequest(Service(h.idx), metadata, h.entrypoint)
    [] own[h].kind = "worker" -> WorkerStartRequest(h, metadata, None)
    [] own[h].kind = "external" -> WorkerInterface(h, "external", None, metadata.cfBlobJson)
    [] OTHER -> WorkerInterface(h, own[h].kind, None, None)

\* A startRequest invoked on the service behind handle h with `metadata`.
Invoked(h, metadata) == [on |-> h, metadata |-> metadata]

\* A startSubrequest that takes the last channel of the table when the number is out
\* of range (faulty variant).
StartSubrequestClamped(own, h, channel, metadata) ==
  LET chans == own[h].subrequestChannels
      c == IF channel < Len(chans) THEN channel ELSE Len(chans) - 1
  IN [error |-> None, invoked |-> <<Invoked(chans[c + 1], metadata)>>,
      result |-> StartRequest(own, chans[c + 1], metadata)]

\* WorkerService::startSubrequest(channel, metadata): the KJ_REQUIRE that failed, the
\* startRequest calls it made, and what it returns or throws.
StartSubrequest(own, h, channel, metadata) ==
  LET chans == own[h].subrequestChannels IN
  IF channel < Len(chans)
    THEN [error |-> None, invoked |-> <<Invoked(chans[channel + 1], metadata)>>,
          result |-> StartRequest(own, chans[channel + 1], metadata)]
    ELSE [error |-> "invalid subrequest channel number", invoked |-> <<>>,
          result |-> Thrown]

(***************************************************************************)
(* The event loop: promise continuations and coroutines of the startup.    *)
(***************************************************************************)
\* State and value of the forked promise a registry entry holds; key 0 is the
\* already-resolved promise of the default "internet" service.
PromiseState(key) == IF key = 0 THEN "resolved" ELSE promise[key].state
PromiseValue(key) == IF key = 0 THEN DefaultInternet ELSE promise[key].value

ConstructedObject(i) ==
  LET d == config.services[i] IN
  CASE d.kind = "worker" -> ServiceObject("worker", coro[i].channels, d.entrypoints, {})
    [] d.kind = "network" -> ServiceObject("network", <<>>, {}, d.allow)
    [] OTHER -> ServiceObject(d.kind, <<>>, {}, {})

\* The continuation at lines 1531-1533: the service is added to ownServices and the
\* forked promise resolves.
OwnService(i) ==
  /\ EventLoopRunning
  /\ promise[i].state = "constructed"
  /\ promise' = [promise EXCEPT ![i].state = "resolved"]
  /\ ownServices' = IF promise[i].value = InvalidConfigService THEN ownServices
                    ELSE ownServices @@ (Service(i) :> ConstructedObject(i))
  /\ UNCHANGED <<http, disk, svc, waitUntilTasks, httpListener, runPromise, config, pc, ip, services, coro, lookup, sock, errors, headerNames,
                 headerTableBuilt, fatal, socketOverrides, externalOverrides,
                 directoryOverrides, conn, req>>

\* network.parseAddress of an external service completes and the continuations at
\* lines 508-512 (or 522-526) and 1531-1533 run.
AddressResolved(i, ok) ==
  /\ EventLoopRunning
  /\ promise[i].state = "resolving"
  /\ promise' = [promise EXCEPT ![i].state = IF ok THEN "resolved" ELSE "rejected"]
  /\ ownServices' = IF ok THEN ownServices @@ (Service(i) :> ConstructedObject(i))
                    ELSE ownServices
  /\ headerNames' = headerNames
                      \cup ExternalRewriterHeaders("resolved", config.services[i].options)
  /\ fatal' = (fatal \/ ~ok)
  /\ UNCHANGED <<http, disk, svc, waitUntilTasks, httpListener, runPromise, config, pc, ip, services, coro, lookup, sock, errors,
                 headerTableBuilt, socketOverrides, externalOverrides, directoryOverrides,
                 conn, req>>

\* The bindings loop of makeWorker from binding k on, up to the next co_await, the
\* end of the list, or a throw.
Scan(next, errs, globals, threw) ==
  [next |-> next, errs |-> errs, globals |-> globals, threw |-> threw]
Global(k, kind, channel) == [binding |-> k, kind |-> kind, channel |-> channel]

RECURSIVE ScanBindings(_, _, _, _)
ScanBindings(i, k, errs, globals) ==
  LET bs == config.services[i].bindings IN
  IF k > Len(bs) THEN Scan(0, errs, globals, FALSE)
  ELSE LET kind == bs[k].kind IN
       CASE kind \in {"service", "kvNamespace", "r2Bucket", "r2Admin"} ->
              Scan(k, errs, globals, FALSE)
         [] kind \in {"parameter", "durableObjectNamespace"} ->
              Scan(0, errs, globals, TRUE)
         [] kind \in {"text", "data", "json"} ->
              ScanBindings(i, k + 1, errs, Append(globals, Global(k, kind, 0)))
         [] kind = "unspecified" ->
              ScanBindings(i, k + 1,
                           errs \cup {ConfigError("unspecifiedBinding", Who("binding", i, k),
                                                  config.services[i].name)},
                           globals)
         [] kind \in {"cryptoKeyInvalidHex", "cryptoKeyInvalidBase64"} ->
              \* lines 1100-1119: the error is reported and the key is added all the same
              ScanBindings(i, k + 1,
                           errs \cup {ConfigError(kind, Who("binding", i, k),
                                                  config.services[i].name)},
                           Append(globals, Global(k, kind, 0)))
         [] kind = "wasmModule" ->
              \* lines 1080-1088: nothing to do for a service-worker script, an error
              \* for a modules-based one
              ScanBindings(i, k + 1,
                           IF config.services[i].isServiceWorkerScript THEN errs
                           ELSE errs \cup {ConfigError("wasmInModules", Who("binding", i, k),
                                                       config.services[i].name)},
                           globals)
         [] kind \in {"cryptoKeyInvalidPem", "cryptoKeyWrongPemType",
                      "cryptoKeyUnknownType", "cryptoKeyUnknownAlgorithm"} ->
              \* lines 1120-1149, 1156-1159, 1173-1176: the error is reported and the
              \* binding is skipped
              ScanBindings(i, k + 1,
                           errs \cup {ConfigError(kind, Who("binding", i, k),
                                                  config.services[i].name)},
                           globals)
         [] OTHER ->
              ScanBindings(i, k + 1,
                           errs \cup {ConfigError("unrecognizedBinding", Who("binding", i, k),
                                                  config.services[i].name)},
                           globals)

\* The binding, if any, whose lookupService makeWorker awaits next.
NextLookup(i, k) == ScanBindings(i, k, {}, <<>>).next

StartedLookup(d) == [IdleLookup EXCEPT !.state = "evalLater", !.ref = d]

\* A makeWorker that gives up on a worker without compatibility date (faulty variant).
WorkerStartRejecting(i) ==
  /\ EventLoopRunning
  /\ coro[i].pc = "evalLater"
  /\ errors' = Report(IF config.services[i].hasCompatibilityDate THEN {}
                      ELSE {ConfigError("noCompatibilityDate", Who("service", i, 0),
                                        config.services[i].name)})
  /\ IF config.services[i].hasCompatibilityDate
       THEN /\ coro' = [coro EXCEPT ![i].pc = "outbound"]
            /\ lookup' = [lookup EXCEPT ![Owner("worker", i)] =
                            StartedLookup(config.services[i].globalOutbound)]
            /\ UNCHANGED <<promise, fatal>>
       ELSE /\ coro' = [coro EXCEPT ![i].pc = "failed"]
            /\ promise' = [promise EXCEPT ![i].state = "rejected"]
            /\ fatal' = TRUE
            /\ lookup' = lookup
  /\ UNCHANGED <<http, disk, svc, waitUntilTasks, httpListener, runPromise, config, pc, ip, services, ownServices, sock,
                 headerNames, headerTableBuilt, socketOverrides, externalOverrides,
                 directoryOverrides, conn, req>>

\* makeWorker resumes from its first co_await (line 949) and runs up to the
\* lookupService of globalOutbound, which suspends at its own first co_await.
WorkerStart(i) ==
  /\ EventLoopRunning
  /\ coro[i].pc = "evalLater"
  /\ errors' = Report(IF config.services[i].hasCompatibilityDate THEN {}
                      ELSE {ConfigError("noCompatibilityDate", Who("service", i, 0),
                                        config.services[i].name)})
  /\ coro' = [coro EXCEPT ![i].pc = "outbound"]
  /\ lookup' = [lookup EXCEPT ![Owner("worker", i)] =
                  StartedLookup(config.services[i].globalOutbound)]
  /\ UNCHANGED <<http, disk, svc, waitUntilTasks, httpListener, runPromise, config, pc, ip, services, promise, ownServices, sock, headerNames,
                 headerTableBuilt, fatal, socketOverrides, externalOverrides,
                 directoryOverrides, conn, req>>

WhoOf(o) == Who(o[1], o[2], IF o[1] = "worker" THEN coro[o[2]].k ELSE 0)

\* Lines 1327-1349: what lookupService returns once the registered promise has
\* yielded `service`.
Resolved(h, es) == [result |-> h, errs |-> es]

\* A lookupService that does not ask the worker whether it has the entrypoint (faulty
\* variant).
ResolveDesignatorUnchecked(own, d, who, service) ==
  IF d.entrypoint = None THEN Resolved(service, {})
  ELSE IF service \in DOMAIN own /\ own[service].kind = "worker"
    THEN Resolved(WorkerEntrypointService(service.idx, d.entrypoint), {})
  ELSE Resolved(InvalidConfigService, {ConfigError("notAWorker", who, d.name)})

\* A lookupService that consults the default-entrypoint flag the validation recorded
\* (faulty variant).
ResolveDesignatorNeedingDefault(own, d, who, service) ==
  IF d.entrypoint = None
    THEN IF service \in DOMAIN own /\ own[service].kind = "worker"
              /\ ~config.services[service.idx].hasDefaultEntrypoint
           THEN Resolved(InvalidConfigService, {ConfigError("noSuchEntrypoint", who, d.name)})
           ELSE Resolved(service, {})
  ELSE IF service \in DOMAIN own /\ own[service].kind = "worker"
    THEN IF d.entrypoint \in own[service].namedEntrypoints
           THEN Resolved(WorkerEntrypointService(service.idx, d.entrypoint), {})
           ELSE Resolved(InvalidConfigService, {ConfigError("noSuchEntrypoint", who, d.name)})
  ELSE Resolved(InvalidConfigService, {ConfigError("notAWorker", who, d.name)})

ResolveDesignator(own, d, who, service) ==
  IF d.entrypoint = None THEN Resolved(service, {})
  ELSE IF service \in DOMAIN own /\ own[service].kind = "worker"
    THEN IF d.entrypoint \in own[service].namedEntrypoints
           THEN Resolved(WorkerEntrypointService(service.idx, d.entrypoint), {})
           ELSE Resolved(InvalidConfigService, {ConfigError("noSuchEntrypoint", who, d.name)})
  ELSE Resolved(InvalidConfigService, {ConfigError("notAWorker", who, d.name)})

\* A lookupService called by makeWorker has returned `service` (or failed): makeWorker,
\* which was awaiting it, runs on.  It fills the channel table and goes to the next
\* lookupService, or to co_return, after which the continuation at lines 1531-1533
\* adds the WorkerService to ownServices (lines 1045-1260).
WorkerContinue(i, service, rejected, errs) ==
  LET o == Owner("worker", i)
      k == coro[i].k
      channels == IF coro[i].pc = "outbound" THEN <<service, service>>
                  ELSE Append(coro[i].channels, service)
      globals == IF coro[i].pc = "outbound" THEN coro[i].globals
                 ELSE Append(coro[i].globals,
                             Global(k, config.services[i].bindings[k].kind,
                                    Len(coro[i].channels)))
      scan == ScanBindings(i, k + 1, {}, globals)
      next == NextLookup(i, k + 1)
  IN IF rejected \/ scan.threw
       THEN /\ coro' = [coro EXCEPT ![i].pc = "failed"]
            /\ promise' = [promise EXCEPT ![i].state = "rejected"]
            /\ ownServices' = ownServices
            /\ lookup' = [lookup EXCEPT ![o] = IdleLookup]
            /\ errors' = Report(errs \cup (IF rejected THEN {} ELSE scan.errs))
            /\ fatal' = TRUE
     ELSE IF next # 0
       THEN /\ coro' = [coro EXCEPT ![i] = [pc |-> "binding", k |-> next,
                                            channels |-> channels, globals |-> scan.globals]]
            /\ promise' = promise
            /\ ownServices' = ownServices
            /\ lookup' = [lookup EXCEPT ![o] =
                            StartedLookup(config.services[i].bindings[next].ref)]
            /\ errors' = Report(errs \cup scan.errs)
            /\ fatal' = fatal
     ELSE /\ coro' = [coro EXCEPT ![i] = [pc |-> "done", k |-> 0,
                                          channels |-> channels, globals |-> scan.globals]]
          /\ promise' = [promise EXCEPT ![i].state = "resolved"]
          /\ ownServices' =
               ownServices @@ (Service(i) :> ServiceObject("worker", channels,
                                                           config.services[i].entrypoints, {}))
          /\ lookup' = [lookup EXCEPT ![o] = IdleLookup]
          /\ errors' = Report(errs \cup scan.errs)
          /\ fatal' = fatal

\* A lookupService that fails when it has no service to return (faulty variant).
LookupReturnFailing(o, service, rejected, errs) ==
  IF o[1] = "worker"
    THEN WorkerContinue(o[2], service, rejected, errs)
    ELSE /\ lookup' = [lookup EXCEPT
                         ![o].state = IF rejected \/ service = InvalidConfigService
                                        THEN "rejected" ELSE "done",
                         ![o].result = service]
         /\ errors' = Report(errs)
         /\ UNCHANGED <<promise, ownServices, coro, fatal>>

\* lookupService returns to its caller: a socket's task keeps the result until its
\* listener is bound; makeWorker runs on at once.
LookupReturn(o, service, rejected, errs) ==
  IF o[1] = "worker"
    THEN WorkerContinue(o[2], service, rejected, errs)
    ELSE /\ lookup' = [lookup EXCEPT ![o].state = IF rejected THEN "rejected" ELSE "done",
                                     ![o].result = service]
         /\ errors' = Report(errs)
         /\ UNCHANGED <<promise, ownServices, coro, fatal>>

\* lookupService resumes from its co_await (line 1317) and reads the registry.
LookupFind(o) ==
  /\ EventLoopRunning
  /\ lookup[o].state = "evalLater"
  /\ LET targetName == lookup[o].ref.name IN
     IF targetName \in DOMAIN services
       THEN /\ lookup' = [lookup EXCEPT ![o].state = "await", ![o].target = services[targetName]]
            /\ UNCHANGED <<promise, ownServices, coro, fatal, errors>>
       ELSE LookupReturn(o, InvalidConfigService, FALSE,
                         {ConfigError("noSuchService", WhoOf(o), targetName)})
  /\ UNCHANGED <<http, disk, svc, waitUntilTasks, httpListener, runPromise, config, pc, ip, services, sock, headerNames, headerTableBuilt,
                 socketOverrides, externalOverrides, directoryOverrides, conn, req>>

\* A lookup that takes a rejected construction for an invalid service (faulty variant).
LookupResolveSwallowing(o) ==
  /\ EventLoopRunning
  /\ lookup[o].state = "await"
  /\ PromiseState(lookup[o].target) \in {"resolved", "rejected"}
  /\ LET r == ResolveDesignator(ownServices, lookup[o].ref, WhoOf(o),
                                PromiseValue(lookup[o].target))
     IN IF PromiseState(lookup[o].target) = "rejected"
          THEN LookupReturn(o, InvalidConfigService, FALSE, {})
          ELSE LookupReturn(o, r.result, FALSE, r.errs)
  /\ UNCHANGED <<http, disk, svc, waitUntilTasks, httpListener, runPromise, config, pc, ip, services, sock,
                 headerNames, headerTableBuilt, socketOverrides, externalOverrides,
                 directoryOverrides, conn, req>>

\* The branch of the registered promise that lookupService awaits completes.
LookupResolve(o) ==
  /\ EventLoopRunning
  /\ lookup[o].state = "await"
  /\ PromiseState(lookup[o].target) \in {"resolved", "rejected"}
  /\ LET r == ResolveDesignator(ownServices, lookup[o].ref, WhoOf(o),
                                PromiseValue(lookup[o].target))
     IN IF PromiseState(lookup[o].target) = "rejected"
          THEN LookupReturn(o, InvalidConfigService, TRUE, {})
          ELSE LookupReturn(o, r.result, FALSE, r.errs)
  /\ UNCHANGED <<http, disk, svc, waitUntilTasks, httpListener, runPromise, config, pc, ip, services, sock, headerNames, headerTableBuilt,
                 socketOverrides, externalOverrides, directoryOverrides, conn, req>>

(***************************************************************************)
(* Sockets: the listener promise, listenHttp, the accept loop, requests.   *)
(***************************************************************************)
\* The next stage of the listener promise of a socket completes: parseAddress and
\* listen (which may fail), then, for an https socket, wrapPort (lines 1620-1634).
ListenerBound(s, ok) ==
  /\ EventLoopRunning
  /\ \/ sock[s].listener = "binding"
     \/ sock[s].listener = "wrapping" /\ ok
  /\ sock' = [sock EXCEPT ![s].listener =
                 IF ~ok THEN "failed"
                 ELSE IF @ = "binding" THEN AfterListen(config.sockets[s].kind)
                 ELSE "bound"]
  /\ fatal' = (fatal \/ ~ok)
  /\ UNCHANGED <<http, disk, svc, waitUntilTasks, httpListener, runPromise, config, pc, ip, services, promise, ownServices, coro, lookup, errors,
                 headerNames, headerTableBuilt, socketOverrides, externalOverrides,
                 directoryOverrides, conn, req>>

\* A socket's task that does not wait for the service (faulty variant).
ReadyToListenUnawaited(s) == sock[s].listener = "bound"

\* What the task of a socket waits for before listenHttp (lines 1640-1649).
ReadyToListen(s) ==
  /\ sock[s].listener = "bound"
  /\ lookup[Owner("socket", s)].state \in {"done", "rejected"}

\* A listenHttp that is called only once every service has been constructed (faulty
\* variant).
SocketListenAfterAll(s) ==
  /\ EventLoopRunning
  /\ ~sock[s].accepting
  /\ ReadyToListen(s)
  /\ \A i \in 1..NumServices : promise[i].state \in {"resolved", "rejected"}
  /\ IF lookup[Owner("socket", s)].state = "rejected"
       THEN /\ sock' = [sock EXCEPT ![s].listener = "failed"]
            /\ fatal' = TRUE
       ELSE /\ sock' = [sock EXCEPT ![s].accepting = TRUE,
                                    ![s].service = lookup[Owner("socket", s)].result]
            /\ fatal' = fatal
  /\ UNCHANGED <<http, disk, svc, waitUntilTasks, httpListener, runPromise, config, pc, ip, services, promise, ownServices,
                 coro, lookup, errors, headerNames, headerTableBuilt, socketOverrides,
                 externalOverrides, directoryOverrides, conn, req>>

\* The continuation at lines 1645-1648: listenHttp constructs the HttpListener and
\* starts its accept loop.
SocketListen(s) ==
  /\ EventLoopRunning
  /\ ~sock[s].accepting
  /\ ReadyToListen(s)
  /\ IF lookup[Owner("socket", s)].state = "rejected"
       THEN /\ sock' = [sock EXCEPT ![s].listener = "failed"]
            /\ fatal' = TRUE
       ELSE /\ sock' = [sock EXCEPT ![s].accepting = TRUE,
                                    ![s].service = lookup[Owner("socket", s)].result]
            /\ fatal' = fatal
  /\ UNCHANGED <<http, disk, svc, waitUntilTasks, httpListener, runPromise, config, pc, ip, services, promise, ownServices, coro, lookup, errors,
                 headerNames, headerTableBuilt, socketOverrides, externalOverrides,
                 directoryOverrides, conn, req>>

\* The tasks Server::run added to its TaskSet (lines 1535, 1640): a branch of the promise
\* of each service and the chain of each valid socket, which ends with the accept loop.
TaskDone(state) == state \in {"resolved", "rejected"}
\* A task set that holds the service constructions only (faulty variant).
TasksEmptyOfConstructions == \A i \in 1..NumServices : TaskDone(promise[i].state)
TasksEmpty ==
  /\ \A i \in 1..NumServices : TaskDone(promise[i].state)
  /\ \A s \in 1..NumSockets : sock[s].listener \in {"none", "failed"}

\* An event of the startup is armed in the event loop's queue.  The loop polls for I/O
\* (a new connection, a request arriving on one) only when its queue is empty.
EventQueued ==
  \/ \E i \in 1..NumServices :
        \/ promise[i].state = "constructed"
        \/ coro[i].pc = "evalLater"
  \/ \E o \in Owners :
        \/ lookup[o].state = "evalLater"
        \/ /\ lookup[o].state = "await"
           /\ PromiseState(lookup[o].target) \in {"resolved", "rejected"}
  \/ \E s \in 1..NumSockets :
        \/ ~sock[s].accepting /\ ReadyToListen(s)
        \/ sock[s].listener = "wrapping"
  \/ runPromise = "pending" /\ (fatal \/ TasksEmpty)

PhysicalProtocol(s) == IF config.sockets[s].kind = "https" THEN "https" ELSE "http"

ServerPeers ==
  {PeerIdentity(FALSE, "network", "10.0.0.1:99", <<>>, <<>>),
   PeerIdentity(FALSE, "other", "", <<>>, <<>>)}

ServerRequests ==
  {[url |-> Url(None, None, <<"p">>), headers |-> [NoHeaders EXCEPT !["Host"] = "srv"]],
   [url |-> Url(None, None, <<"p">>), headers |-> NoHeaders]}

\* A handleApplicationError that answers 500 whether or not it is given a response
\* (faulty variant).
HandleApplicationErrorAlways(response) == 500

\* Connection::handleApplicationError (lines 1493-1501): the status it sends, 0 for none.
\* `response` tells whether kj's HttpServer passes a response object.
HandleApplicationError(response) == IF response THEN 500 ELSE 0

\* An exception leaves Connection::request or the promise it returned.  kj's HttpServer
\* passes the response object to the error handler only if the service has not started
\* the response; `started` tells whether it has (with status 200).
UncaughtException(r, started) ==
  LET sent == HandleApplicationError(~started) IN
  [r EXCEPT !.state = "done", !.threw = TRUE, !.started = started,
            !.status = IF started THEN 200 ELSE sent,
            !.responses = (IF started THEN 1 ELSE 0) + (IF sent # 0 THEN 1 ELSE 0)]

\* HttpListener::run: one connection is accepted and handed to a Connection (lines 1366-1408).
AcceptConnection(s, peer) ==
  /\ EventLoopRunning
  /\ ~EventQueued
  /\ sock[s].accepting
  /\ conn' = [sock |-> s, cfBlobJson |-> ListenerCfBlob(config.sockets[s].options, peer)]
  /\ UNCHANGED <<http, disk, svc, waitUntilTasks, httpListener, runPromise, config, pc, ip, services, promise, ownServices, coro, lookup, sock, errors,
                 headerNames, headerTableBuilt, fatal, socketOverrides, externalOverrides,
                 directoryOverrides, req>>

\* Connection::request (lines 1462-1488), and handleApplicationError when it throws
\* before a response has started (lines 1493-1501).
ConnectionRequest(r) ==
  /\ EventLoopRunning
  /\ ~EventQueued
  /\ conn.sock # 0
  /\ req.state # "running"
  /\ LET s == conn.sock
         plan == ConnectionRequestPlan(config.sockets[s].options, PhysicalProtocol(s),
                                       conn.cfBlobJson, r.url, r.headers)
         worker == StartRequest(ownServices, sock[s].service, plan.metadata)
     IN req' = CASE plan.outcome = "sendError400" ->
                      [NoRequest EXCEPT !.state = "done", !.sock = s, !.status = 400,
                                        !.started = TRUE, !.responses = 1]
                 [] plan.outcome = "exception" \/ worker = Thrown ->
                      UncaughtException([NoRequest EXCEPT !.sock = s], FALSE)
                 [] OTHER ->
                      [NoRequest EXCEPT !.state = "running", !.sock = s, !.chain = <<worker>>]
  /\ UNCHANGED <<http, disk, svc, waitUntilTasks, httpListener, runPromise, config, pc, ip, services, promise, ownServices, coro, lookup, sock, errors,
                 headerNames, headerTableBuilt, fatal, socketOverrides, externalOverrides,
                 directoryOverrides, conn>>

\* The script of the worker serving the request calls startSubrequest (lines 877-880).
WorkerSubrequest(channel) ==
  /\ EventLoopRunning
  /\ req.state = "running"
  /\ Len(req.chain) < MaxDepth
  /\ LET top == req.chain[Len(req.chain)]
         worker == StartSubrequest(ownServices, top.service, channel,
                                   Metadata(top.cfBlobJson)).result
     IN /\ top.kind = "worker"
        /\ channel \in 0..Len(ownServices[top.service].subrequestChannels)
        /\ req' = IF worker = Thrown
                    THEN [req EXCEPT !.failedSubrequests = 1]
                    ELSE [req EXCEPT !.chain = Append(@, worker)]
  /\ UNCHANGED <<http, disk, svc, waitUntilTasks, httpListener, runPromise, config, pc, ip, services, promise, ownServices, coro, lookup, sock, errors,
                 headerNames, headerTableBuilt, fatal, socketOverrides, externalOverrides,
                 directoryOverrides, conn>>

\* The script calls startSubrequest with a channel number and a metadata of its own
\* choosing; what the call did is kept with the request (lines 877-880).
WorkerSubrequestWith(channel, metadata) ==
  /\ EventLoopRunning
  /\ req.state = "running"
  /\ LET top == req.chain[Len(req.chain)]
         call == StartSubrequest(ownServices, top.service, channel, metadata)
         made == [by |-> top.service, channel |-> channel, metadata |-> metadata,
                  error |-> call.error, invoked |-> call.invoked]
     IN /\ top.kind = "worker"
        /\ call.invoked # <<>> => Len(req.chain) < MaxDepth
        /\ req' = IF call.result = Thrown
                    THEN [req EXCEPT !.failedSubrequests = 1, !.subrequest = made]
                    ELSE [req EXCEPT !.chain = Append(@, call.result), !.subrequest = made]
  /\ UNCHANGED <<http, disk, svc, waitUntilTasks, httpListener, runPromise, config, pc, ip, services, promise, ownServices, coro, lookup, sock, errors,
                 headerNames, headerTableBuilt, fatal, socketOverrides, externalOverrides,
                 directoryOverrides, conn>>

\* The entrypoint serving the request adds a task to the waitUntilTasks of its worker,
\* which startRequest handed to it (line 851).
WaitUntil ==
  /\ EventLoopRunning
  /\ req.state = "running"
  /\ LET top == req.chain[Len(req.chain)]
     IN /\ top.kind = "worker"
        /\ top.service \notin waitUntilTasks.pending
        /\ waitUntilTasks' = [waitUntilTasks EXCEPT !.pending = @ \cup {top.service}]
  /\ UNCHANGED <<http, disk, svc, httpListener, runPromise, config, pc, ip, services, promise,
                 ownServices, coro, lookup, sock, errors, headerNames, headerTableBuilt, fatal,
                 socketOverrides, externalOverrides, directoryOverrides, conn, req>>

\* A task of a worker's waitUntilTasks completes.
WaitUntilTaskDone(h) ==
  /\ EventLoopRunning
  /\ h \in waitUntilTasks.pending
  /\ waitUntilTasks' = [waitUntilTasks EXCEPT !.pending = @ \ {h}]
  /\ UNCHANGED <<http, disk, svc, httpListener, runPromise, config, pc, ip, services, promise,
                 ownServices, coro, lookup, sock, errors, headerNames, headerTableBuilt, fatal,
                 socketOverrides, externalOverrides, directoryOverrides, conn, req>>

\* A taskFailed that treats the failure as Server::taskFailed does, as fatal (faulty
\* variant).
WaitUntilTaskFailsFatally(h) ==
  /\ EventLoopRunning
  /\ h \in waitUntilTasks.pending
  /\ waitUntilTasks' = [waitUntilTasks EXCEPT !.pending = @ \ {h}, !.logged = @ \cup {h}]
  /\ fatal' = TRUE
  /\ UNCHANGED <<http, disk, svc, httpListener, runPromise, config, pc, ip, services, promise,
                 ownServices, coro, lookup, sock, errors, headerNames, headerTableBuilt,
                 socketOverrides, externalOverrides, directoryOverrides, conn, req>>

\* A task of a worker's waitUntilTasks fails: the task set calls
\* WorkerService::taskFailed, which logs the exception (lines 869-871).
WaitUntilTaskFails(h) ==
  /\ EventLoopRunning
  /\ h \in waitUntilTasks.pending
  /\ waitUntilTasks' = [waitUntilTasks EXCEPT !.pending = @ \ {h}, !.logged = @ \cup {h}]
  /\ UNCHANGED <<http, disk, svc, httpListener, runPromise, config, pc, ip, services, promise,
                 ownServices, coro, lookup, sock, errors, headerNames, headerTableBuilt, fatal,
                 socketOverrides, externalOverrides, directoryOverrides, conn, req>>

\* The service answers and the request's promise completes.
RequestCompletes ==
  /\ EventLoopRunning
  /\ req.state = "running"
  /\ req' = [req EXCEPT !.state = "done", !.status = 200, !.started = TRUE,
                        !.responses = 1]
  /\ UNCHANGED <<http, disk, svc, waitUntilTasks, httpListener, runPromise, config, pc, ip, services, promise, ownServices, coro, lookup, sock, errors,
                 headerNames, headerTableBuilt, fatal, socketOverrides, externalOverrides,
                 directoryOverrides, conn>>

\* The service handling the request throws, before or after it has started the response.
RequestThrows(started) ==
  /\ EventLoopRunning
  /\ req.state = "running"
  /\ req' = UncaughtException(req, started)
  /\ UNCHANGED <<http, disk, svc, waitUntilTasks, httpListener, runPromise, config, pc, ip, services, promise, ownServices,
                 coro, lookup, sock, errors, headerNames, headerTableBuilt, fatal,
                 socketOverrides, externalOverrides, directoryOverrides, conn>>

\* listener->acceptAuthenticated() fails: the promise of HttpListener::run, which is
\* the socket's task, is rejected, and Server::taskFailed rejects the fatal promise
\* (lines 1366, 1511, 1295-1297).
AcceptFails(s) ==
  /\ EventLoopRunning
  /\ ~EventQueued
  /\ sock[s].accepting
  /\ sock' = [sock EXCEPT ![s].accepting = FALSE, ![s].listener = "failed"]
  /\ fatal' = TRUE
  /\ UNCHANGED <<http, disk, svc, waitUntilTasks, httpListener, runPromise, config, pc, ip, services, promise, ownServices,
                 coro, lookup, errors, headerNames, headerTableBuilt, socketOverrides,
                 externalOverrides, directoryOverrides, conn, req>>

\* The promise Server::run returned completes (line 1677): rejected once the fatal
\* promise is, fulfilled once the task set is empty.
RunCompletes ==
  /\ EventLoopRunning
  /\ runPromise = "pending"
  /\ fatal \/ TasksEmpty
  /\ runPromise' = IF fatal THEN "rejected" ELSE "fulfilled"
  /\ UNCHANGED <<http, disk, svc, waitUntilTasks, httpListener, config, pc, ip, services, promise, ownServices, coro, lookup,
                 sock, errors, headerNames, headerTableBuilt, fatal, socketOverrides,
                 externalOverrides, directoryOverrides, conn, req>>

ServerNext ==
  \/ ConfigureService
  \/ MakeDefaultInternet
  \/ StartSocket
  \/ ReportUnmatchedOverrides
  \/ BuildHeaderTable
  \/ \E i \in 1..NumServices : OwnService(i)
  \/ \E i \in 1..NumServices, ok \in BOOLEAN : AddressResolved(i, ok)
  \/ \E i \in 1..NumServices : WorkerStart(i)
  \/ \E o \in Owners : LookupFind(o)
  \/ \E o \in Owners : LookupResolve(o)
  \/ \E s \in 1..NumSockets, ok \in BOOLEAN : ListenerBound(s, ok)
  \/ \E s \in 1..NumSockets : SocketListen(s)
  \/ \E s \in 1..NumSockets, peer \in ServerPeers : AcceptConnection(s, peer)
  \/ \E r \in ServerRequests : ConnectionRequest(r)
  \/ \E channel \in 0..3 : WorkerSubrequest(channel)
  \/ RequestCompletes
  \/ \E started \in BOOLEAN : RequestThrows(started)
  \/ \E s \in 1..NumSockets : AcceptFails(s)
  \/ RunCompletes

NoConfig == [services |-> <<>>, sockets |-> <<>>]

(***************************************************************************)
(* The HttpRewriter and one HttpListener connection on their own: a        *)
(* listener with options http.options serves a worker; separately, a       *)
(* request is rewritten for the wire and rewritten back.                   *)
(***************************************************************************)
Message(u, h, cf) == [url |-> u, headers |-> h, cfBlobJson |-> cf]
NoMessage == Message(NoUrl, NoHeaders, None)
NoDispatch == Dispatch("none", None, NoUrl, NoHeaders, FALSE)
NoRewritten == Rewritten("none", NoUrl, NoHeaders, None)

NoHttp ==
  [pc |-> "off", options |-> DefaultHttpOptions, physicalProtocol |-> "http",
   connCfBlobJson |-> None, inbound |-> NoMessage, dispatch |-> NoDispatch,
   worker |-> Thrown, original |-> NoMessage, outgoing |-> NoRewritten,
   ownCfBlobJson |-> None, incoming |-> NoRewritten,
   peer |-> PeerIdentity(FALSE, "none", "", <<>>, <<>>),
   response |-> NoResponse, supplied |-> NoHeaders]

NoDisk ==
  [pc |-> "off", writable |-> FALSE, allowDotfiles |-> FALSE, files |-> {},
   method |-> None, url |-> NoUrl, status |-> 0, opened |-> <<>>, replacing |-> <<>>,
   replaced |-> <<>>, body |-> <<>>,
   written |-> {}, puts |-> 0, pumped |-> 0, before |-> 0, aborted |-> None, seen |-> <<>>]

NoSvc ==
  [kind |-> "none", options |-> DefaultHttpOptions, handles |-> <<>>, served |-> <<>>,
   calls |-> <<>>]

HttpOptionsValues ==
  {HttpOptions(style, inj, resp, fwd, cf) :
     style \in {"HOST", "PROXY"},
     resp \in {<<>>, <<Header("X-Api-Key", "ours")>>},
     inj \in {<<>>, <<Header("X-Api-Key", "secret")>>, <<Header("X-Cf-Blob", "forged")>>,
              <<Header("Host", "other")>>, <<Header("Host", None)>>,
              <<Header("X-Api-Key", "first"), Header("X-Forwarded-Proto", "injected"),
                Header("X-Api-Key", "second")>>,
              <<Header("X-Cf-Blob", "first"), Header("X-Cf-Blob", None)>>},
     fwd \in {None, "X-Forwarded-Proto"},
     cf \in {None, "X-Cf-Blob"}}

HttpPeers ==
  {PeerIdentity(FALSE, "network", "10.0.0.1:99", <<>>, <<>>),
   PeerIdentity(TRUE, "network", "q\"uote", <<>>, <<>>),
   PeerIdentity(FALSE, "local", "", <<7>>, <<0>>),
   PeerIdentity(FALSE, "local", "", <<7>>, <<>>),
   PeerIdentity(FALSE, "local", "", <<>>, <<0>>),
   PeerIdentity(TRUE, "local", "", <<>>, <<>>),
   PeerIdentity(FALSE, "other", "", <<>>, <<>>),
   PeerIdentity(TRUE, "other", "", <<>>, <<>>)}

\* Requests a client sends on a connection of the listener.
HttpInbound ==
  {Message(u, [NoHeaders EXCEPT !["Host"] = host, !["X-Cf-Blob"] = blob,
                                !["X-Forwarded-Proto"] = proto], None) :
     u \in {Url(None, None, <<"p">>), Url("http", "h", <<"p">>)},
     host \in {None, "srv"},
     blob \in {None, "{\"x\":1}"},
     proto \in {None, "https"}}

\* Requests handed to rewriteOutgoingRequest: absolute URLs, with a header set and a blob.
HttpOriginals ==
  {Message(u, h, cf) :
     u \in {Url("http", "h", <<"p">>), Url("https", "h", <<"p">>),
            Url("http", "h", <<"a", "..", "p">>)},
     h \in {NoHeaders,
            [NoHeaders EXCEPT !["Host"] = "h"],
            [NoHeaders EXCEPT !["Host"] = "vhost"],
            [NoHeaders EXCEPT !["X-Cf-Blob"] = "stale"],
            [NoHeaders EXCEPT !["X-Forwarded-Proto"] = "ftp"],
            [NoHeaders EXCEPT !["X-Api-Key"] = "mine"]},
     cf \in {None, "{\"x\":1}"}}

HttpInit ==
  /\ ServerStart(NoConfig)
  /\ disk = NoDisk
  /\ svc = NoSvc
  /\ \E o \in HttpOptionsValues, p \in {"http", "https"} :
        http = [NoHttp EXCEPT !.pc = "listening", !.options = o, !.physicalProtocol = p]

\* HttpListener::run: a connection is accepted (lines 1366-1408).
HttpAccept(peer) ==
  /\ http.pc = "listening"
  /\ http' = [http EXCEPT !.pc = "connected", !.peer = peer,
                          !.connCfBlobJson = ListenerCfBlob(http.options, peer)]
  /\ UNCHANGED <<serverVars, disk, svc>>

\* Connection::request, the listener's service being a worker (lines 1462-1488, 837-858).
HttpRequest(m) ==
  /\ http.pc = "connected"
  /\ LET plan == ConnectionRequestPlan(http.options, http.physicalProtocol,
                                       http.connCfBlobJson, m.url, m.headers)
     IN http' = [http EXCEPT
                   !.pc = "requested", !.inbound = m, !.dispatch = plan,
                   !.worker = IF plan.outcome = "startRequest"
                                THEN WorkerStartRequest(Service(1), plan.metadata, None)
                                ELSE Thrown]
  /\ UNCHANGED <<serverVars, disk, svc>>

\* rewriteOutgoingRequest is applied to a request (lines 264-289).
HttpOutgoing(m) ==
  /\ http.pc = "listening"
  /\ http' = [http EXCEPT
                !.pc = "rewritten", !.original = m,
                !.outgoing = RewriteOutgoingRequest(http.options, m.url, m.headers,
                                                    m.cfBlobJson)]
  /\ UNCHANGED <<serverVars, disk, svc>>

\* rewriteIncomingRequest is applied to what rewriteOutgoingRequest produced; cf is the
\* value the caller's cfBlobJson holds before the call (lines 291-324).
HttpIncoming(cf) ==
  /\ http.pc = "rewritten"
  /\ http.outgoing.result = "ok"
  /\ http' = [http EXCEPT
                !.pc = "restored", !.ownCfBlobJson = cf,
                !.incoming = RewriteIncomingRequest(http.options, http.outgoing.url,
                                                    http.physicalProtocol,
                                                    http.outgoing.headers, cf)]
  /\ UNCHANGED <<serverVars, disk, svc>>

\* Headers a service answers with.
HttpAnswers == {NoHeaders, [NoHeaders EXCEPT !["X-Api-Key"] = "theirs"]}

\* The service answers the request it was handed, by send or by acceptWebSocket on
\* the response Connection::request gave it: the ResponseWrapper when the rewriter
\* needs to rewrite responses, the connection's own response otherwise (lines
\* 1468-1472).
HttpRespond(verb, headers) ==
  /\ http.pc = "requested"
  /\ http.dispatch.outcome = "startRequest"
  /\ LET status == IF verb = "send" THEN 200 ELSE 101
         r == IF http.dispatch.wrapped
                THEN WrappedSend(http.options, verb, status, headers)
                ELSE PlainSend(verb, status, headers)
     IN http' = [http EXCEPT !.pc = "responded", !.supplied = headers, !.response = r]
  /\ UNCHANGED <<serverVars, disk, svc>>

\* An error answer sent through the ResponseWrapper: sendError calls the send of the
\* object it is called on (faulty variant).
ListenerSendErrorWrapped(o, status) ==
  IF NeedsRewriteResponse(o) THEN WrappedSend(o, "sendError", status, NoHeaders)
  ELSE SendError(status)

\* The listener's own answers: sendError is called on `response`, the response kj's
\* HttpServer made, and not on wrappedResponse (lines 1478 and 1497).
ListenerSendError(o, status) == SendError(status)

\* rewriteIncomingRequest returned null and Connection::request answers 400 itself
\* (lines 1474-1479).
HttpSendError ==
  /\ http.pc = "requested"
  /\ http.dispatch.outcome = "sendError400"
  /\ http' = [http EXCEPT !.pc = "refused",
                          !.response = ListenerSendError(http.options, 400)]
  /\ UNCHANGED <<serverVars, disk, svc>>

\* An exception leaves Connection::request or the promise it returned, before the
\* service has answered or after: kj's HttpServer calls handleApplicationError, with
\* its response only when no response was started (lines 1493-1501).
HttpThrows ==
  /\ \/ http.pc = "requested" /\ http.dispatch.outcome \in {"exception", "startRequest"}
     \/ http.pc = "responded"
  /\ LET sent == HandleApplicationError(http.pc # "responded")
     IN http' = [http EXCEPT !.pc = "failed",
                             !.response = IF sent = 0 THEN @
                                          ELSE ListenerSendError(http.options, sent)]
  /\ UNCHANGED <<serverVars, disk, svc>>

HttpNext ==
  \/ HttpSendError
  \/ HttpThrows
  \/ \E peer \in HttpPeers : HttpAccept(peer)
  \/ \E m \in HttpInbound : HttpRequest(m)
  \/ \E verb \in {"send", "acceptWebSocket"}, headers \in HttpAnswers :
        HttpRespond(verb, headers)
  \/ \E m \in HttpOriginals : HttpOutgoing(m)
  \/ \E cf \in {None, "{\"clientIp\": \"10.0.0.1:99\"}"} : HttpIncoming(cf)

HttpSpec == HttpInit /\ [][HttpNext]_vars

(***************************************************************************)
(* DiskDirectoryService on its own.  The directory is the set of the paths *)
(* of its files (disk.files) and two fixed subdirectories; a path is the   *)
(* sequence of its components.                                             *)
(***************************************************************************)
Directories == {<<>>, <<"sub">>}
\* A node of the directory that is neither a file nor a directory.
NamedPipes == {<<"pipe">>}
InitialFiles == {<<"file.txt">>, <<".hidden">>, <<"sub", "file.txt">>}

\* The kj::Path constructor throws on a component that is empty, ".", ".." or holds a "/".
PathThrows(path) == \E k \in 1..Len(path) : path[k] \in {"", ".", "..", "a/b"}

\* part.startsWith(".") on the components the model uses.
StartsWithDot(part) == part \in {".", "..", ".hidden"}

\* Lines 631-647: blockedPath.
BlockedPath(allowDotfiles, path) ==
  \/ PathThrows(path)
  \/ ~allowDotfiles /\ \E k \in 1..Len(path) : StartsWithDot(path[k])

\* body is <<>>, or <<entries>> when the response is the listing of a directory.
DiskResult(status, opened, replacing) ==
  [status |-> status, opened |-> opened, replacing |-> replacing, body |-> <<>>]

\* dir->listEntries(): the names directly under the directory at path, with their types.
ListEntries(files, path) ==
  {[name |-> f[Len(path) + 1],
    type |-> IF Len(f) > Len(path) + 1 THEN "directory"
             ELSE IF f \in files THEN "file"
             ELSE IF f \in Directories THEN "directory" ELSE "namedPipe"] :
     f \in {g \in files \cup Directories \cup NamedPipes :
              Len(g) > Len(path) /\ SubSeq(g, 1, Len(path)) = path}}

\* Lines 706-726: the entries that go into the listing.
ListedEntries(allowDotfiles, entries) ==
  {e \in entries : ~(~allowDotfiles /\ StartsWithDot(e.name))}

\* A stat that takes every node that is not a directory for a file (faulty variant).
NodeTypeFileOrDirectory(files, path) ==
  IF path \in Directories THEN "directory"
  ELSE IF path \in files \cup NamedPipes THEN "file"
  ELSE "none"

\* meta.type of the node tryOpenFile opens at path, "none" if there is none (lines
\* 654-660).  A file that has replaced another node is a file.
NodeType(files, path) ==
  IF path \in files THEN "file"
  ELSE IF path \in Directories THEN "directory"
  ELSE IF path \in NamedPipes THEN "other"
  ELSE "none"

\* DiskDirectoryService::request up to the response, or up to the pump of the request
\* body into the replacer of a PUT (lines 626-759).  Status 500 stands for an exception.
DiskDirectoryRequest(d, method, urlStr) ==
  LET url == UrlParse(urlStr, "REMOTE_HREF", TRUE, FALSE)
      path == url.path
      blockedPath == BlockedPath(d.allowDotfiles, path)
  IN IF url = ParseFailure THEN DiskResult(500, <<>>, <<>>)
     ELSE IF method \in {"GET", "HEAD"}
       THEN IF blockedPath THEN DiskResult(404, <<>>, <<>>)
            ELSE IF NodeType(d.files, path) = "none" THEN DiskResult(404, <<>>, <<>>)
            ELSE IF NodeType(d.files, path) = "other" THEN DiskResult(406, <<path>>, <<>>)
            ELSE IF NodeType(d.files, path) = "directory" /\ method = "GET"
              THEN [DiskResult(200, <<path>>, <<>>) EXCEPT
                      !.body = <<ListedEntries(d.allowDotfiles, ListEntries(d.files, path))>>]
            ELSE DiskResult(200, <<path>>, <<>>)
     ELSE IF method = "PUT"
       THEN IF ~d.writable THEN DiskResult(405, <<>>, <<>>)
            ELSE IF blockedPath THEN DiskResult(403, <<>>, <<>>)
            ELSE IF path = <<>> THEN DiskResult(500, <<>>, <<>>)
            ELSE DiskResult(0, <<>>, <<path>>)
     ELSE DiskResult(501, <<>>, <<>>)

DiskMethods == {"GET", "HEAD", "PUT", "POST"}

DiskUrls ==
  {Url("http", "h", path) :
     path \in {<<"file.txt">>, <<"new.txt">>, <<"sub">>, <<"pipe">>, <<".hidden">>,
               <<"%2ehidden">>,
               <<"sub", "..", "file.txt">>, <<"..", "file.txt">>, <<"sub", "..">>,
               <<"%2e%2e", "file.txt">>, <<"sub", "%2e%2e", "new.txt">>, <<"a%2fb">>}}
    \cup {Url(None, None, <<"file.txt">>)}

DiskInit ==
  /\ ServerStart(NoConfig)
  /\ http = NoHttp
  /\ svc = NoSvc
  /\ \E w \in BOOLEAN, a \in BOOLEAN :
        disk = [NoDisk EXCEPT !.pc = "idle", !.writable = w, !.allowDotfiles = a,
                              !.files = InitialFiles]

\* The content of files is told apart by who wrote it: 0 for a file that was there at
\* the start, n for the body of the n-th PUT that got as far as replaceFile, Absent for
\* no file.  BodyChunks is the number of writes the pump of a request body takes.
Absent == 0 - 1
BodyChunks == 2
MaxPuts == 2
Content(d, path) ==
  IF path \notin d.files THEN Absent
  ELSE IF \E w \in d.written : w[1] = path
    THEN (CHOOSE w \in d.written : w[1] = path)[2]
  ELSE 0
\* How much of its body a file holds: all of it, unless it was committed early.
Chunks(d, path) ==
  IF \E w \in d.written : w[1] = path
    THEN (CHOOSE w \in d.written : w[1] = path)[3]
  ELSE BodyChunks

\* A request arrives at the service.  A PUT that gets through has replaceFile create a
\* temporary file, into which the body is then pumped (lines 746-749).
DiskRequest(method, urlStr) ==
  /\ disk.pc = "idle"
  /\ LET r == DiskDirectoryRequest(disk, method, urlStr)
     IN /\ r.replacing # <<>> => disk.puts < MaxPuts
        /\ disk' = [disk EXCEPT !.pc = IF r.replacing = <<>> THEN "idle" ELSE "pumping",
                                !.method = method, !.url = urlStr, !.status = r.status,
                                !.opened = r.opened, !.replacing = r.replacing,
                                !.replaced = <<>>, !.body = r.body,
                                !.puts = IF r.replacing = <<>> THEN @ ELSE @ + 1,
                                !.pumped = 0, !.aborted = None, !.seen = <<>>,
                                !.before = IF r.replacing = <<>> THEN 0
                                           ELSE Content(disk, r.replacing[1])]
  /\ UNCHANGED <<serverVars, http, svc>>

\* requestBody.pumpTo(*stream) writes a part of the body into the temporary file of the
\* replacer (line 749).
DiskPump ==
  /\ disk.pc = "pumping"
  /\ disk.pumped < BodyChunks
  /\ disk' = [disk EXCEPT !.pumped = @ + 1]
  /\ UNCHANGED <<serverVars, http, svc>>

\* The files of the directory once the replacer of path has been committed: the new
\* file takes the place of whatever node was at the path, a directory with all it holds
\* included.
Committed(files, path) ==
  {f \in files : ~(Len(f) >= Len(path) /\ SubSeq(f, 1, Len(path)) = path)} \cup {path}

\* A pump that commits whatever it has written when the body fails (faulty variant).
DiskPumpEndsCommitting(how) ==
  /\ disk.pc = "pumping"
  /\ disk.pumped < BodyChunks
  /\ disk' = [disk EXCEPT !.pc = "idle", !.status = IF how = "failed" THEN 500 ELSE 0,
                          !.files = Committed(@, disk.replacing[1]),
                          !.written = {w \in @ : w[1] # disk.replacing[1]}
                                        \cup {<<disk.replacing[1], disk.puts, disk.pumped>>},
                          !.replacing = <<>>, !.aborted = how]
  /\ UNCHANGED <<serverVars, http, svc>>

\* The body stream fails, or the request is cancelled, before the body has been pumped:
\* the promise of line 749 never reaches its continuation, and the replacer is destroyed
\* with the promise, uncommitted, which discards its temporary file.
DiskPumpEnds(how) ==
  /\ disk.pc = "pumping"
  /\ disk.pumped < BodyChunks
  /\ disk' = [disk EXCEPT !.pc = "idle", !.status = IF how = "failed" THEN 500 ELSE 0,
                          !.replacing = <<>>, !.aborted = how]
  /\ UNCHANGED <<serverVars, http, svc>>

\* The request body of a PUT has been pumped: the continuation at lines 749-753 commits
\* the replacer and answers 204.
DiskCommit ==
  /\ disk.pc = "pumping"
  /\ disk.pumped = BodyChunks
  /\ disk' = [disk EXCEPT !.pc = "idle", !.status = 204,
                          !.files = Committed(@, disk.replacing[1]),
                          !.written = {w \in @ : ~(/\ Len(w[1]) >= Len(disk.replacing[1])
                                                     /\ SubSeq(w[1], 1, Len(disk.replacing[1]))
                                                          = disk.replacing[1])}
                                        \cup {<<disk.replacing[1], disk.puts, disk.pumped>>},
                          !.replaced = disk.replacing, !.replacing = <<>>]
  /\ UNCHANGED <<serverVars, http, svc>>

\* Another request, a GET, is served while the body of the PUT is being pumped: it
\* opens what is at its path then (lines 654-656) and sends that file's content.
DiskGetDuringPut(urlStr) ==
  /\ disk.pc = "pumping"
  /\ LET r == DiskDirectoryRequest(disk, "GET", urlStr)
     IN /\ r.status = 200
        /\ r.opened[1] \in disk.files
        /\ disk' = [disk EXCEPT !.seen = <<[path |-> r.opened[1],
                                            content |-> Content(disk, r.opened[1]),
                                            chunks |-> Chunks(disk, r.opened[1])]>>]
  /\ UNCHANGED <<serverVars, http, svc>>

DiskNext ==
  \/ \E method \in DiskMethods, urlStr \in DiskUrls : DiskRequest(method, urlStr)
  \/ DiskPump
  \/ \E how \in {"failed", "cancelled"} : DiskPumpEnds(how)
  \/ DiskCommit
  \/ \E urlStr \in DiskUrls : DiskGetDuringPut(urlStr)

DiskSpec == DiskInit /\ [][DiskNext]_vars

(***************************************************************************)
(* One Service on its own (an ExternalHttpService, a NetworkService or a   *)
(* DiskDirectoryService) and the WorkerInterfaces its startRequest has     *)
(* returned.  svc.served is what the service has sent on (external,        *)
(* network) or answered (disk), svc.calls the calls made on the handles.   *)
(***************************************************************************)
\* The number of calls explored: those of startRequest and those on the handles.
MaxCalls == 4

\* ExternalHttpService::startRequest makes a WorkerInterfaceImpl of its own for each
\* call; NetworkService and DiskDirectoryService return themselves.
WorkerInterfaceImpl(metadata) ==
  [impl |-> "own", wrappedResponse |-> FALSE, cfBlobJson |-> metadata.cfBlobJson]
ServiceItself == [impl |-> "service", wrappedResponse |-> FALSE, cfBlobJson |-> None]

ServiceStartRequest(kind, metadata) ==
  IF kind = "external" THEN WorkerInterfaceImpl(metadata) ELSE ServiceItself

\* What a call on a WorkerInterface does: its outcome ("ok" or the exception thrown),
\* the handle afterwards, and what was sent on, if anything.
Called(outcome, handle, sent) == [outcome |-> outcome, handle |-> handle, sent |-> sent]
Sent(url, headers, status) == [url |-> url, headers |-> headers, status |-> status]

\* A request that does not look at wrappedResponse (faulty variant).
ExternalRequestUnchecked(o, h, url, headers) ==
  LET rewrite == RewriteOutgoingRequest(o, url, headers, h.cfBlobJson)
  IN IF ~NeedsRewriteRequest(o) THEN Called("ok", h, <<Sent(url, headers, 0)>>)
     ELSE IF rewrite.result = "throw" THEN Called("invalid url", h, <<>>)
     ELSE Called("ok", h, <<Sent(rewrite.url, rewrite.headers, 0)>>)

\* ExternalHttpService::WorkerInterfaceImpl::request (lines 421-433).
ExternalRequest(o, h, url, headers) ==
  LET used == [h EXCEPT !.wrappedResponse = TRUE]
      rewrite == RewriteOutgoingRequest(o, url, headers, h.cfBlobJson)
  IN IF h.wrappedResponse
       THEN Called("object should only receive one request", h, <<>>)
     ELSE IF ~NeedsRewriteRequest(o) THEN Called("ok", used, <<Sent(url, headers, 0)>>)
     ELSE IF rewrite.result = "throw" THEN Called("invalid url", used, <<>>)
     ELSE Called("ok", used, <<Sent(rewrite.url, rewrite.headers, 0)>>)

\* NetworkService::request (lines 558-562).
NetworkRequest(h, url, headers) == Called("ok", h, <<Sent(url, headers, 0)>>)

\* The directory of the DiskDirectoryService: read-only, without dotfiles.
ServedDirectory == [NoDisk EXCEPT !.files = InitialFiles]

\* DiskDirectoryService::request for a GET (lines 626-759).
DiskRequestOnHandle(h, url, headers) ==
  LET r == DiskDirectoryRequest(ServedDirectory, "GET", url)
  IN IF r.status = 500 THEN Called("invalid url", h, <<>>)
     ELSE Called("ok", h, <<Sent(url, headers, r.status)>>)

ServiceRequest(kind, o, h, url, headers) ==
  CASE kind = "external" -> ExternalRequest(o, h, url, headers)
    [] kind = "network" -> NetworkRequest(h, url, headers)
    [] kind = "disk" -> DiskRequestOnHandle(h, url, headers)

Events == {"sendTraces", "prewarm", "runScheduled", "runAlarm", "customEvent"}

\* Events that are all accepted without doing anything (faulty variant).
ServiceEventAccepted(kind, verb) == "ok"

\* sendTraces, prewarm, runScheduled, runAlarm and customEvent of the three classes
\* (lines 435-457, 564-580, 761-777): the outcome is "ok" or the exception's text.
ServiceEvent(kind, verb) ==
  IF verb = "prewarm" THEN "ok"
  ELSE IF kind = "disk" THEN "jsg.Error: Disk directory services don't support this event type."
  ELSE "jsg.Error: External HTTP servers don't support this event type."

SvcMessages ==
  {Message(Url("http", "h", <<"p">>), NoHeaders, None),
   Message(Url("https", "h", <<"file.txt">>),
           [NoHeaders EXCEPT !["Host"] = "vhost", !["X-Api-Key"] = "mine"], None),
   Message(Url(None, None, <<"p">>), [NoHeaders EXCEPT !["Host"] = "vhost"], None),
   Message(Url("http", "h", <<"p">>), [NoHeaders EXCEPT !["X-Cf-Blob"] = "stale"], None)}

\* The options of the ExternalHttpService.
SvcOptions ==
  {HttpOptions(style, inj, <<>>, fwd, None) :
     style \in {"HOST", "PROXY"},
     inj \in {<<>>, <<Header("Host", "other")>>},
     fwd \in {None, "X-Forwarded-Proto"}}
    \cup {HttpOptions("PROXY", inj, <<>>, None, "X-Cf-Blob") :
            inj \in {<<>>, <<Header("X-Cf-Blob", "forged")>>}}
    \cup {HttpOptions("PROXY", <<>>, <<Header("X-Api-Key", "ours")>>, None, None),
          [EdgeOptions EXCEPT !.injectResponse = <<Header("X-Api-Key", "ours")>>]}
    \cup {EdgeOptions, DefaultHttpOptions}

SvcInit ==
  /\ ServerStart(NoConfig)
  /\ http = NoHttp
  /\ disk = NoDisk
  /\ \E kind \in {"external", "network", "disk"} :
       \E o \in IF kind = "external" THEN SvcOptions ELSE {DefaultHttpOptions} :
          svc = [NoSvc EXCEPT !.kind = kind, !.options = o]

Call(verb, handle, outcome, inbound) ==
  [verb |-> verb, handle |-> handle, outcome |-> outcome, inbound |-> inbound]

\* The steps taken so far: handles obtained, calls made, answers of the origin.
SvcSteps ==
  Len(svc.handles) + Len(svc.calls)
    + Cardinality({k \in 1..Len(svc.served) : svc.served[k].response # NoResponse})

\* A caller obtains a handle from the service.
SvcStartRequest(cf) ==
  /\ svc.kind # "none"
  /\ SvcSteps < MaxCalls
  /\ svc' = [svc EXCEPT !.handles = Append(@, ServiceStartRequest(svc.kind, Metadata(cf)))]
  /\ UNCHANGED <<serverVars, http, disk>>

\* A caller makes an http request on handle h.
SvcRequest(h, m) ==
  /\ h \in 1..Len(svc.handles)
  /\ SvcSteps < MaxCalls
  /\ LET c == ServiceRequest(svc.kind, svc.options, svc.handles[h], m.url, m.headers)
     IN svc' = [svc EXCEPT
                  !.handles[h] = c.handle,
                  !.served = @ \o [k \in 1..Len(c.sent) |->
                                     [handle |-> h, inbound |-> m, sent |-> c.sent[k],
                                      response |-> NoResponse, supplied |-> NoHeaders]],
                  !.calls = Append(@, Call("request", h, c.outcome, m))]
  /\ UNCHANGED <<serverVars, http, disk>>

\* A caller delivers an event other than an http request on handle h.
SvcEvent(h, verb) ==
  /\ h \in 1..Len(svc.handles)
  /\ SvcSteps < MaxCalls
  /\ svc' = [svc EXCEPT
               !.calls = Append(@, Call(verb, h, ServiceEvent(svc.kind, verb), NoMessage))]
  /\ UNCHANGED <<serverVars, http, disk>>

\* send and acceptWebSocket of ExternalHttpService::WorkerInterfaceImpl, which is the
\* response handed to the adapter of the origin (lines 458-480).
ExternalSend(o, verb, status, headers) ==
  IF NeedsRewriteResponse(o) THEN WrappedSend(o, verb, status, headers)
  ELSE PlainSend(verb, status, headers)

\* The origin answers request k, which the external service sent on to it.
SvcRespond(k, verb, headers) ==
  /\ svc.kind = "external"
  /\ k \in 1..Len(svc.served)
  /\ svc.served[k].response = NoResponse
  /\ SvcSteps < MaxCalls
  /\ svc' = [svc EXCEPT
               !.served[k].supplied = headers,
               !.served[k].response =
                  ExternalSend(svc.options, verb, IF verb = "send" THEN 200 ELSE 101,
                               headers)]
  /\ UNCHANGED <<serverVars, http, disk>>

SvcNext ==
  \/ \E cf \in {None, "{\"x\":1}"} : SvcStartRequest(cf)
  \/ \E k \in 1..MaxCalls, verb \in {"send", "acceptWebSocket"}, headers \in HttpAnswers :
        SvcRespond(k, verb, headers)
  \/ \E h \in 1..MaxCalls, m \in SvcMessages : SvcRequest(h, m)
  \/ \E h \in 1..MaxCalls, verb \in Events : SvcEvent(h, verb)

SvcSpec == SvcInit /\ [][SvcNext]_vars

Init == (\E c \in Configs : ServerStart(c)) /\ http = NoHttp /\ disk = NoDisk /\ svc = NoSvc
Next == ServerNext
Spec == Init /\ [][Next]_vars

(***************************************************************************)
(* The accept loop of an HttpListener on its own.  Each connection is a    *)
(* task in HttpListener::tasks: "open" while it waits for a request,       *)
(* "running" while the service handles one, "served" once the request was  *)
(* answered, "failed" once the task has failed.                            *)
(***************************************************************************)
MaxConns == 3

ListenerInit ==
  /\ ServerStart(NoConfig)
  /\ http = NoHttp /\ disk = NoDisk /\ svc = NoSvc

\* listenHttp builds the HttpListener and calls run(), which waits in
\* acceptAuthenticated (lines 1505-1511, 1365-1366).
ListenerRun ==
  /\ httpListener = NoListener
  /\ httpListener' = [httpListener EXCEPT !.accepting = TRUE]
  /\ UNCHANGED <<serverVarsButListener, http, disk, svc>>

\* An accept loop that waits for the connection it accepted to end before it accepts
\* again (faulty variant).
ListenerAcceptAwaiting(peer) ==
  /\ httpListener.accepting
  /\ Len(httpListener.conns) < MaxConns
  /\ \A c \in 1..Len(httpListener.conns) : httpListener.conns[c].state \in {"served", "failed"}
  /\ httpListener' = [httpListener EXCEPT
                        !.conns = Append(@, [cfBlobJson |-> ListenerCfBlob(DefaultHttpOptions, peer),
                                             state |-> "open"])]
  /\ UNCHANGED <<serverVarsButListener, http, disk, svc>>

\* The continuation of acceptAuthenticated (lines 1367-1408): the Connection is made,
\* its listenHttp promise is added to the task set, and run() is called again.
ListenerAccept(peer) ==
  /\ httpListener.accepting
  /\ Len(httpListener.conns) < MaxConns
  /\ httpListener' = [httpListener EXCEPT
                        !.conns = Append(@, [cfBlobJson |-> ListenerCfBlob(DefaultHttpOptions, peer),
                                             state |-> "open"])]
  /\ UNCHANGED <<serverVarsButListener, http, disk, svc>>

\* acceptAuthenticated fails: the promise of run() rejects and the loop is over.
ListenerAcceptFails ==
  /\ httpListener.accepting
  /\ httpListener' = [httpListener EXCEPT !.accepting = FALSE]
  /\ UNCHANGED <<serverVarsButListener, http, disk, svc>>

\* A request arrives on connection c and Connection::request hands it to the service.
ListenerRequest(c) ==
  /\ c \in 1..Len(httpListener.conns)
  /\ httpListener.conns[c].state = "open"
  /\ httpListener' = [httpListener EXCEPT !.conns[c].state = "running"]
  /\ UNCHANGED <<serverVarsButListener, http, disk, svc>>

\* The service answers the request of connection c.
ListenerRequestCompletes(c) ==
  /\ c \in 1..Len(httpListener.conns)
  /\ httpListener.conns[c].state = "running"
  /\ httpListener' = [httpListener EXCEPT !.conns[c].state = "served"]
  /\ UNCHANGED <<serverVarsButListener, http, disk, svc>>

\* The task of connection c fails: HttpListener::taskFailed logs the exception (lines
\* 1418-1420).
ListenerTaskFails(c) ==
  /\ c \in 1..Len(httpListener.conns)
  /\ httpListener.conns[c].state \in {"open", "running"}
  /\ httpListener' = [httpListener EXCEPT !.conns[c].state = "failed", !.logged = @ + 1]
  /\ UNCHANGED <<serverVarsButListener, http, disk, svc>>

ListenerNext ==
  \/ ListenerRun
  \/ \E peer \in ServerPeers : ListenerAccept(peer)
  \/ ListenerAcceptFails
  \/ \E c \in 1..MaxConns : ListenerRequest(c)
  \/ \E c \in 1..MaxConns : ListenerRequestCompletes(c)
  \/ \E c \in 1..MaxConns : ListenerTaskFails(c)

ListenerSpec == ListenerInit /\ [][ListenerNext]_vars

\* The server with the background tasks of its workers.
WaitUntilNext ==
  \/ ServerNext
  \/ WaitUntil
  \/ \E i \in 1..NumServices : WaitUntilTaskDone(Service(i))
  \/ \E i \in 1..NumServices : WaitUntilTaskFails(Service(i))
WaitUntilSpec == Init /\ [][WaitUntilNext]_vars

(***************************************************************************)
(* Liveness: the event loop runs every startup event that is armed, and    *)
(* every I/O the startup waits for completes.                              *)
(***************************************************************************)
StartupNext ==
  \/ ConfigureService
  \/ MakeDefaultInternet
  \/ StartSocket
  \/ ReportUnmatchedOverrides
  \/ BuildHeaderTable
  \/ \E i \in 1..NumServices : OwnService(i)
  \/ \E i \in 1..NumServices, ok \in BOOLEAN : AddressResolved(i, ok)
  \/ \E i \in 1..NumServices : WorkerStart(i)
  \/ \E o \in Owners : LookupFind(o)
  \/ \E o \in Owners : LookupResolve(o)
  \/ \E s \in 1..NumSockets, ok \in BOOLEAN : ListenerBound(s, ok)
  \/ \E s \in 1..NumSockets : SocketListen(s)
  \/ RunCompletes

FairSpec == Init /\ [][Next]_vars /\ WF_vars(StartupNext)

(***************************************************************************)
(* Server::run started with command-line overrides on configurations that  *)
(* have problems: descriptors without address or path, references to       *)
(* undeclared names, duplicate names, values of enums the code does not    *)
(* know, keys that do not decode.                                          *)
(***************************************************************************)
Cli(socketAddrs, externalAddrs, directoryPaths) ==
  [socketAddrs |-> socketAddrs, externalAddrs |-> externalAddrs,
   directoryPaths |-> directoryPaths]

NoCli == Cli(NoOverrides, NoOverrides, NoOverrides)
\* Every override names a descriptor of its kind.
MatchedCli == Cli("main" :> "cli-addr", "b" :> "cli-addr", "d" :> "cli-path")
\* No override does: "d" is a disk directory, "b" an external service.
UnmatchedCli == Cli("nosuch" :> "cli-addr", "d" :> "cli-addr", "b" :> "cli-path")
InheritedCli == Cli("second" :> InheritedListener, NoOverrides, NoOverrides)
InheritedBothCli ==
  Cli(("main" :> InheritedListener) @@ ("second" :> InheritedListener), NoOverrides,
      NoOverrides)
MixedCli ==
  Cli(("main" :> "cli-addr") @@ ("nosuch" :> "cli-addr"),
      ("b" :> "cli-addr") @@ ("a" :> "cli-addr"), "d" :> "cli-path")

KeysWorker ==
  WorkerDesc("a", "internet",
             <<Binding("cryptoKeyWrongPemType", NoDesignator),
               Binding("cryptoKeyInvalidHex", NoDesignator), Svc("b")>>, {})
PlainWorker == WorkerDesc("a", "internet", <<>>, {})
ExternalAt(n, addr) == [ExternalDesc(n) EXCEPT !.address = addr]
DiskAt(n, path) == [DiskDesc(n) EXCEPT !.path = path]
SocketAt(n, target, addr) ==
  [SocketDesc(n, Designator(target, None), DefaultHttpOptions) EXCEPT !.address = addr]

StartupCase(sv, so, cli) == [services |-> sv, sockets |-> so, cli |-> cli]

StartupCases ==
  {StartupCase(<<KeysWorker, ExternalAt("b", given[1]), DiskAt("d", given[2])>>,
               <<SocketAt("main", "a", given[3]), SocketAt("second", "ghost", "cfg-addr")>>,
               cli) :
     given \in {<<None, None, None>>, <<"cfg-addr", "cfg-path", "cfg-addr">>,
                <<"cfg-addr", None, "cfg-addr">>, <<None, "cfg-path", None>>},
     cli \in {NoCli, MatchedCli, UnmatchedCli, MixedCli}}
    \cup
  {StartupCase(<<PlainWorker, ExternalAt("b", None), ExternalAt("b", "cfg-addr")>>,
               <<SocketAt("main", "b", "cfg-addr"), SocketAt("second", "a", "cfg-addr")>>,
               cli) : cli \in {NoCli, MatchedCli}}
    \cup
  {StartupCase(<<PlainWorker, ServiceDesc("b", "newer")>>,
               <<[SocketAt("main", "a", "cfg-addr") EXCEPT !.kind = "newer"],
                 SocketAt("second", "b", "cfg-addr")>>,
               cli) : cli \in {NoCli, MatchedCli}}
    \cup
  {StartupCase(<<PlainWorker>>, <<SocketAt("main", "a", None)>>, cli) :
     cli \in {NoCli, UnmatchedCli}}
    \cup
  {StartupCase(<<PlainWorker, ExternalAt("b", "cfg-addr")>>,
               <<[SocketAt("main", "b", "cfg-addr") EXCEPT !.kind = "https"],
                 SocketAt("second", "a", None)>>,
               cli) : cli \in {InheritedCli, InheritedBothCli}}

StartupInit ==
  /\ \E c \in StartupCases :
        ServerStartWith([services |-> c.services, sockets |-> c.sockets],
                        c.cli.socketAddrs, c.cli.externalAddrs, c.cli.directoryPaths)
  /\ http = NoHttp
  /\ disk = NoDisk
  /\ svc = NoSvc

StartupSpec == StartupInit /\ [][Next]_vars
FairStartupSpec == StartupInit /\ [][Next]_vars /\ WF_vars(StartupNext)

(***************************************************************************)
(* Configurations whose designators name entrypoints: the worker "c"       *)
(* exports "ep"; a socket and the bindings of the worker "a" ask for it,   *)
(* for an entrypoint it has not, and for an entrypoint of a service that   *)
(* is not a worker.  The script of "c" has named handlers only, no default *)
(* one (ErrorReporter::addHandler, lines 957-965); a socket asks for "c"   *)
(* without an entrypoint name.                                             *)
(***************************************************************************)
SvcEp(n, e) == Binding("service", Designator(n, e))
EntrypointWorker ==
  [WorkerDesc("c", "internet", <<>>, {"ep"}) EXCEPT !.hasDefaultEntrypoint = FALSE]
EntrypointCaller(e) ==
  WorkerDesc("a", "internet", <<SvcEp("c", e), SvcEp("b", "ep"), SvcEp("c", None)>>, {})
SocketFor(n, d) == SocketDesc(n, d, DefaultHttpOptions)

EntrypointCase(e, b, d) ==
  [services |-> <<EntrypointCaller(e), b, EntrypointWorker>>,
   sockets |-> <<SocketFor("main", d), SocketFor("second", Designator("a", None))>>]

EntrypointCases ==
  {EntrypointCase(e, ExternalAt("b", "cfg-addr"), d) :
     e \in {"ep", "nope"},
     d \in {Designator("c", "ep"), Designator("c", "nope"), Designator("b", "ep"),
            Designator("ghost", "ep"), Designator("c", None)}}
    \cup {EntrypointCase("ep", DiskDesc("b"), Designator("b", "ep"))}

EntrypointInit ==
  /\ \E c \in EntrypointCases : ServerStart(c)
  /\ http = NoHttp
  /\ disk = NoDisk
  /\ svc = NoSvc

EntrypointSpec == EntrypointInit /\ [][Next]_vars

\* The server with workers whose scripts choose channel number and metadata of their
\* subrequests, over the configurations with entrypoints: the channel table of the
\* worker "a" holds the global outbound twice, a shim or the Invalid-Config Service,
\* and the worker "c".
MaxChannel == 5
SubrequestNext ==
  \/ ServerNext
  \/ \E channel \in 0..MaxChannel, cf \in {None, "caller"} :
       WorkerSubrequestWith(channel, Metadata(cf))
SubrequestInit ==
  /\ \E c \in {EntrypointCase("ep", ExternalAt("b", "cfg-addr"), Designator("c", None)),
                EntrypointCase("nope", ExternalAt("b", "cfg-addr"), Designator("c", None)),
                EntrypointCase("ep", DiskDesc("b"), Designator("c", None))} :
       ServerStart(c)
  /\ http = NoHttp
  /\ disk = NoDisk
  /\ svc = NoSvc
SubrequestSpec == SubrequestInit /\ [][SubrequestNext]_vars

(***************************************************************************)
(* Workers whose descriptors are in error: a worker "a" with or without a  *)
(* compatibility date, as a service-worker or a modules-based script, with *)
(* bindings that are unspecified, Wasm modules, crypto keys that do not    *)
(* decode or are of an unknown kind, references to a service nobody        *)
(* declares, and bindings of the kinds that are not implemented.           *)
(***************************************************************************)
Plain(kind) == Binding(kind, NoDesignator)
Ref(kind, n) == Binding(kind, Designator(n, None))

ReportableBindings ==
  {<<>>,
   <<Plain("unspecified"), Plain("wasmModule"), Plain("cryptoKeyInvalidHex"), Svc("ghost")>>,
   <<Plain("cryptoKeyWrongPemType"), Plain("cryptoKeyUnknownType"), Svc("b"),
     Plain("cryptoKeyUnknownAlgorithm")>>,
   <<Plain("cryptoKeyInvalidBase64"), Ref("kvNamespace", "ghost"),
     Plain("cryptoKeyInvalidPem"), Plain("text")>>}
UnimplementedBindings ==
  {<<Plain("unspecified"), Plain("parameter"), Svc("b")>>,
   <<Svc("b"), Plain("durableObjectNamespace"), Plain("cryptoKeyInvalidHex")>>}

ErrorWorker(out, bs, date, legacy) ==
  [WorkerDesc("a", out, bs, {}) EXCEPT !.hasCompatibilityDate = date,
                                       !.isServiceWorkerScript = legacy]

WorkerErrorCase(w) ==
  [services |-> <<w, ExternalDesc("b"), DiskDesc("d")>>,
   sockets |-> <<SocketFor("main", Designator("a", None))>>]

WorkerErrorCases ==
  {WorkerErrorCase(ErrorWorker("internet", bs, date, legacy)) :
     bs \in ReportableBindings \cup UnimplementedBindings, date \in BOOLEAN,
     legacy \in BOOLEAN}
    \cup {WorkerErrorCase(ErrorWorker("ghost", bs, FALSE, FALSE)) : bs \in ReportableBindings}

WorkerErrorInit ==
  /\ \E c \in WorkerErrorCases : ServerStart(c)
  /\ http = NoHttp
  /\ disk = NoDisk
  /\ svc = NoSvc

WorkerErrorSpec == WorkerErrorInit /\ [][Next]_vars
FairWorkerErrorSpec == WorkerErrorSpec /\ WF_vars(StartupNext)

(***************************************************************************)
(* Sockets with TLS: an https socket "main" whose TlsOptions carry each    *)
(* kind of minVersion, a value outside the enum included, next to a plain  *)
(* http socket.                                                            *)
(***************************************************************************)
MinVersions == {"GOOD_DEFAULT", "SSL3", "TLS1_DOT0", "TLS1_DOT1", "TLS1_DOT2", "TLS1_DOT3"}
UnknownMinVersion == "TLS1_DOT4"

HttpsSocket(n, target, v) ==
  [SocketFor(n, Designator(target, None)) EXCEPT !.kind = "https", !.minVersion = v]

TlsCases ==
  {[services |-> <<PlainWorker, ExternalDesc("b"), DiskDesc("d")>>,
    sockets |-> <<HttpsSocket("main", "a", v), SocketFor("second", Designator("d", None))>>] :
     v \in MinVersions \cup {UnknownMinVersion}}

TlsInit ==
  /\ \E c \in TlsCases : ServerStart(c)
  /\ http = NoHttp
  /\ disk = NoDisk
  /\ svc = NoSvc

TlsSpec == TlsInit /\ [][Next]_vars

(***************************************************************************)
(* Vocabulary of the properties.                                           *)
(***************************************************************************)
Declarations(n) == {i \in 1..NumServices : config.services[i].name = n}
Declared(n) == Declarations(n) # {}
DeclaredNames == {config.services[i].name : i \in 1..NumServices}
FirstDeclaration(n) == CHOOSE i \in Declarations(n) : \A j \in Declarations(n) : i <= j

ErrorsOf(e, n) == {x \in BagToSet(errors) : x.err = e /\ x.name = n}
NumErrors(e, n) == BagCardinality([x \in ErrorsOf(e, n) |-> CopiesIn(x, errors)])

IsWorker(i) == config.services[i].kind = "worker"
LookupBindings(i) ==
  {k \in 1..Len(config.services[i].bindings) :
      config.services[i].bindings[k].kind \in {"service", "kvNamespace", "r2Bucket", "r2Admin"}}

\* The service a handle leads to has been constructed and its future has completed.
HandleResolved(h) ==
  \/ h.obj \in {"invalid", "internet"}
  \/ promise[h.idx].state = "resolved" /\ Service(h.idx) \in DOMAIN ownServices

\* What a reference d has resolved to, as far as it has: the results lookupService has
\* returned to sockets, and the channel-table entries of workers.
SocketResults(n) ==
  {lookup[Owner("socket", s)].result :
      s \in {t \in 1..NumSockets : /\ lookup[Owner("socket", t)].state = "done"
                                   /\ lookup[Owner("socket", t)].ref.name = n}}
OutboundResults(n) ==
  {coro[i].channels[1] :
      i \in {j \in 1..NumServices : /\ IsWorker(j)
                                    /\ config.services[j].globalOutbound.name = n
                                    /\ Len(coro[j].channels) >= 2}}
BindingResults(n) ==
  UNION {{coro[i].channels[coro[i].globals[g].channel + 1] :
            g \in {x \in 1..Len(coro[i].globals) :
                     /\ coro[i].globals[x].kind = "service"
                     /\ config.services[i].bindings[coro[i].globals[x].binding].ref.name = n}} :
         i \in 1..NumServices}
Results(n) == SocketResults(n) \cup OutboundResults(n) \cup BindingResults(n)

(***************************************************************************)
(* Properties.                                                             *)
(***************************************************************************)

\* C1: a Worker service object exists only once the lookup of its globalOutbound and of
\* every service, KV, R2 bucket and R2 admin binding has returned: its channel table has
\* an entry for each of them, every entry leads to a service whose future has completed,
\* and no lookup of the worker is pending.  Every worker a request or a sub-request has
\* reached is such a constructed worker.
C1_WorkerCreatedAfterLookups ==
  /\ \A i \in 1..NumServices :
        (IsWorker(i) /\ Service(i) \in DOMAIN ownServices) =>
          LET chans == ownServices[Service(i)].subrequestChannels IN
          /\ promise[i].state = "resolved"
          /\ Len(chans) = 2 + Cardinality(LookupBindings(i))
          /\ chans[1] = chans[2]
          /\ \A c \in 1..Len(chans) : HandleResolved(chans[c])
          /\ lookup[Owner("worker", i)].state = "none"
  /\ \A k \in 1..Len(req.chain) :
        req.chain[k].kind = "worker" =>
          /\ req.chain[k].service \in DOMAIN ownServices
          /\ promise[req.chain[k].service.idx].state = "resolved"

\* A request has reached a worker with a service binding and, through a channel of it,
\* a second worker.
C1_Witness ==
  /\ Len(req.chain) = 2
  /\ req.chain[1].kind = "worker"
  /\ req.chain[2].kind = "worker"
  /\ Len(ownServices[req.chain[1].service].subrequestChannels) = 3

\* C2 (as the code has it): for a name declared more than once, one configuration error
\* is reported per declaration after the first, the registry keeps the first
\* declaration, and every lookup of the name that has returned leads to the service
\* built from the first declaration.
C2_FirstDeclarationWins ==
  \A n \in DeclaredNames :
    Cardinality(Declarations(n)) > 1 =>
      /\ pc # "services" =>
           NumErrors("duplicateService", n) = Cardinality(Declarations(n)) - 1
      /\ n \in DOMAIN services => services[n] = FirstDeclaration(n)
      /\ \A h \in Results(n) :
           h \in {Service(FirstDeclaration(n)),
                  WorkerEntrypointService(FirstDeclaration(n), "ep")}

\* C2 as stated: exactly one error for a name declared more than once.
C2_ExactlyOneError ==
  \A n \in DeclaredNames :
    (Cardinality(Declarations(n)) > 1 /\ pc # "services") =>
      NumErrors("duplicateService", n) = 1

\* A name is declared three times and a socket's lookup of it has returned.
C2_Witness ==
  /\ pc = "serving"
  /\ \E n \in DeclaredNames : Cardinality(Declarations(n)) = 3 /\ SocketResults(n) # {}

\* The header names the configuration makes the server register.
ConfiguredHeaders ==
  UNION {RewriterHeaders(config.sockets[s].options) : s \in 1..NumSockets}
    \cup UNION {RewriterHeaders(config.services[i].options) :
                  i \in {j \in 1..NumServices : config.services[j].kind = "external"}}
    \cup (IF \E i \in 1..NumServices : config.services[i].kind = "disk"
            THEN {"Last-Modified"} ELSE {})

\* Something has run in the event loop: a future has completed, a coroutine or a lookup
\* has been resumed, a listener is bound or accepting, a connection has been accepted.
EventLoopHasRun ==
  \/ \E i \in 1..NumServices :
        \/ promise[i].state \in {"resolved", "rejected"}
        \/ coro[i].pc \notin {"none", "evalLater"}
  \/ \E o \in Owners : lookup[o].state \notin {"none", "evalLater", "cancelled"}
  \/ \E s \in 1..NumSockets : sock[s].listener \notin {"none", "binding"} \/ sock[s].accepting
  \/ conn.sock # 0
  \/ req.state # "idle"

\* C6: when the header table is built it holds every header name the configuration
\* calls for (rewriter injections, forwardedProtoHeader, cfBlobHeader, Last-Modified);
\* nothing runs in the event loop before the table is built; and no step taken after
\* the build changes the set of registered names.
C6_HeaderTableFrozen ==
  /\ [](headerTableBuilt => headerNames = ConfiguredHeaders)
  /\ [](EventLoopHasRun => headerTableBuilt)
  /\ [][headerTableBuilt => headerNames' = headerNames]_vars

\* An external service has completed its construction after the build, and a connection
\* has been accepted.
C6_Witness ==
  /\ headerTableBuilt
  /\ conn.sock # 0
  /\ "X-Api-Key" \in headerNames
  /\ \E i \in 1..NumServices :
        config.services[i].kind = "external" /\ promise[i].state = "resolved"

\* The service the name "internet" stands for.
InternetTarget ==
  IF Declared("internet") THEN Service(FirstDeclaration("internet")) ELSE DefaultInternet

\* C7: no "no such service" error is ever reported for the name "internet"; once
\* Server::run is past the services the registry has an entry for it; the default, a
\* network service restricted to public peers, exists exactly if the configuration
\* declares no "internet"; and every lookup of the name that has returned leads to the
\* declared service if there is one and to the default otherwise.
C7_InternetResolves ==
  /\ NumErrors("noSuchService", "internet") = 0
  /\ pc \notin {"services", "internet"} =>
       /\ "internet" \in DOMAIN services
       /\ DefaultInternet \in DOMAIN ownServices <=> ~Declared("internet")
  /\ DefaultInternet \in DOMAIN ownServices =>
       ownServices[DefaultInternet] = ServiceObject("network", <<>>, {}, {"public"})
  /\ Results("internet") \subseteq {InternetTarget}

\* A socket serves the default "internet" service, and a worker has it as globalOutbound.
C7_Witness ==
  /\ ~Declared("internet")
  /\ \E s \in 1..NumSockets : sock[s].accepting /\ sock[s].service = DefaultInternet
  /\ OutboundResults("internet") = {DefaultInternet}

\* C8: a reference to a name the configuration declares, wherever the declaration
\* stands, is never reported as "no such service", and the lookup awaits the registry
\* entry of the name and returns what that entry yields.
C8_DeclaredNamesAreFound ==
  /\ \A x \in BagToSet(errors) : x.err = "noSuchService" => ~Declared(x.name)
  /\ \A o \in Owners :
        (lookup[o].state \in {"await", "done"} /\ Declared(lookup[o].ref.name)) =>
          /\ lookup[o].ref.name \in DOMAIN services
          /\ lookup[o].state = "await" => lookup[o].target = services[lookup[o].ref.name]
  /\ \A n \in DeclaredNames :
        \A h \in Results(n) : h.obj # "invalid" => h.idx = FirstDeclaration(n)

\* The first worker refers to a service declared after it, and its lookup has returned
\* that service.
C8_Witness ==
  /\ NumServices >= 2
  /\ IsWorker(1)
  /\ config.services[1].globalOutbound.name = config.services[2].name
  /\ config.services[2].name # config.services[1].name
  /\ Service(1) \in DOMAIN ownServices
  /\ ownServices[Service(1)].subrequestChannels[1] = Service(2)

\* The services worker i refers to by name: the registry entries its lookups await.
References(i) ==
  IF ~IsWorker(i) THEN {}
  ELSE {FirstDeclaration(n) :
          n \in {m \in {config.services[i].globalOutbound.name}
                         \cup {config.services[i].bindings[k].ref.name : k \in LookupBindings(i)} :
                   Declared(m)}}

RECURSIVE ReachableFrom(_, _)
ReachableFrom(set, steps) ==
  IF steps = 0 THEN set
  ELSE ReachableFrom(set \cup UNION {References(j) : j \in set}, steps - 1)

\* Worker i is on a cycle of references (it may be a reference to itself).
InCycle(i) == i \in ReachableFrom(References(i), NumServices)

\* Socket s serves a worker that is on a cycle.
ServesCycle(s) ==
  /\ Declared(config.sockets[s].service.name)
  /\ InCycle(FirstDeclaration(config.sockets[s].service.name))

CycleConfigured ==
  /\ pc = "serving"
  /\ \E i \in 1..NumServices : InCycle(i)

CycleStarted ==
  /\ \A i \in 1..NumServices : promise[i].state \in {"resolved", "rejected"}
  /\ \A s \in 1..NumSockets :
        ServesCycle(s) => sock[s].accepting \/ sock[s].listener = "failed"

\* C9: in a configuration whose workers refer to one another in a cycle, once
\* Server::run has returned, every service future eventually completes and every socket
\* that serves a worker of the cycle eventually accepts connections (or has failed to
\* bind its address).
C9_CyclicReferencesStart == CycleConfigured ~> CycleStarted

\* The name caller o looks up is not in the registry.
MissingName(o) == lookup[o].ref.name \notin DOMAIN services

NoSuchService(o) == ConfigError("noSuchService", WhoOf(o), lookup[o].ref.name)

\* lookupService of caller o reads the registry and does not find the name.
LookupMisses(o) ==
  /\ lookup[o].state = "evalLater"
  /\ MissingName(o)
  /\ lookup'[o] # lookup[o]

\* C10: a lookupService that does not find its name in the registry reports one
\* configuration error for the reference, returns the Invalid-Config Service without
\* failing its caller (a socket keeps it as its service, a worker puts it in its
\* channel table and goes on), and leaves the registry and the constructed services as
\* they were.  A request to the Invalid-Config Service is answered 500 without a request
\* handle; no request or sub-request ever holds a handle on it.
C10_MissingNameIsInvalidConfig ==
  /\ [][\A o \in Owners :
          LookupMisses(o) =>
            /\ services' = services
            /\ ownServices' = ownServices \/ o[1] = "worker"
            /\ CopiesIn(NoSuchService(o), errors') = CopiesIn(NoSuchService(o), errors) + 1
            /\ fatal' = fatal
            /\ o[1] = "socket" =>
                 lookup'[o].state = "done" /\ lookup'[o].result = InvalidConfigService
            /\ o[1] = "worker" =>
                 /\ promise'[o[2]].state # "rejected"
                 /\ coro'[o[2]].channels[Len(coro'[o[2]].channels)] = InvalidConfigService]_vars
  /\ [](\A k \in 1..Len(req.chain) :
          req.chain[k].kind # "thrown" /\ req.chain[k].service # InvalidConfigService)
  /\ []((req.state # "idle" /\ sock[req.sock].service = InvalidConfigService) =>
          (req.state = "done" /\ req.status = 500 /\ req.chain = <<>>))

\* A socket refers to a name the configuration does not declare; a request to it has
\* been answered 500.
C10_Witness ==
  /\ req.state = "done"
  /\ req.status = 500
  /\ sock[req.sock].service = InvalidConfigService
  /\ ~Declared(config.sockets[req.sock].service.name)
  /\ NumErrors("noSuchService", config.sockets[req.sock].service.name) = 1

\* The startup has come to rest with the futures of a cycle incomplete: no event is armed
\* and every listener is bound.
C9_Witness ==
  /\ CycleConfigured
  /\ ~EventQueued
  /\ \A s \in 1..NumSockets : sock[s].listener = "bound"
  /\ \A i \in 1..NumServices : promise[i].state # "resolving"
  /\ ~CycleStarted

\* The value the request injections leave in header n, if they name it.
RECURSIVE Injected(_, _, _)
Injected(inj, n, v) ==
  IF inj = <<>> THEN v
  ELSE Injected(Tail(inj), n, IF Head(inj).name = n THEN Head(inj).value ELSE v)

\* The listener has handed the request to the service's startRequest.
Dispatched == http.pc = "requested" /\ http.dispatch.outcome = "startRequest"

\* C3 (as the code has it): the cfBlobJson handed to startRequest is carried unchanged
\* into the worker's entrypoint.  Without a cfBlobHeader it is the blob the listener
\* derived from the peer.  With a cfBlobHeader it is the value of that header on the
\* inbound request (none if the request has no such header), and the header is absent
\* from the forwarded headers unless a configured request injection names that same
\* header, in which case the forwarded header has the injected value.
C3_CfBlobAtService ==
  Dispatched =>
    LET o == http.options IN
    /\ http.worker.cfBlobJson = http.dispatch.metadata.cfBlobJson
    /\ ~HasCfBlobHeader(o) => http.dispatch.metadata.cfBlobJson = http.connCfBlobJson
    /\ HasCfBlobHeader(o) =>
         /\ http.connCfBlobJson = None
         /\ http.dispatch.metadata.cfBlobJson = http.inbound.headers[o.cfBlobHeader]
         /\ http.dispatch.headers[o.cfBlobHeader] =
              Injected(o.injectRequest, o.cfBlobHeader, None)

\* C3 as stated: with a cfBlobHeader the header is absent from the forwarded headers.
C3_HeaderAbsent ==
  (Dispatched /\ HasCfBlobHeader(http.options)) =>
    /\ http.dispatch.metadata.cfBlobJson = http.inbound.headers[http.options.cfBlobHeader]
    /\ http.dispatch.headers[http.options.cfBlobHeader] = None

\* A request carrying the cfBlobHeader has been dispatched by a listener whose request
\* injections name that header.
C3_Witness ==
  /\ Dispatched
  /\ HasCfBlobHeader(http.options)
  /\ http.inbound.headers[http.options.cfBlobHeader] # None
  /\ http.options.cfBlobHeader \in InjectedNames(http.options.injectRequest)
  /\ http.worker.cfBlobJson = http.inbound.headers[http.options.cfBlobHeader]

\* The headers the rewriter itself writes and reads under options o.
RewriterOwnHeaders(o) ==
  (IF o.style = "HOST" THEN {"Host"} ELSE {})
    \cup (IF o.style = "HOST" /\ o.forwardedProtoHeader # None
            THEN {o.forwardedProtoHeader} ELSE {})
    \cup (IF o.cfBlobHeader # None THEN {o.cfBlobHeader} ELSE {})

RoundTripDone == http.pc = "restored"

\* C4 (as the code has it): rewriteOutgoingRequest followed by rewriteIncomingRequest
\* with the same options, when no request injection names a header the rewriter itself
\* uses (Host and forwardedProtoHeader under the HOST style, cfBlobHeader), succeeds and
\*  - yields the original URL under the PROXY style, and under the HOST style if the
\*    path has no "." or ".." segment and either forwardedProtoHeader is configured or
\*    the physical protocol equals the URL's scheme; under the HOST style it always
\*    yields the original host and the original path with "." and ".." resolved;
\*  - yields the original headers apart from the injected ones and the ones the rewriter
\*    uses: Host has the URL's host under the HOST style, forwardedProtoHeader (HOST
\*    style) and cfBlobHeader are absent;
\*  - yields the original cf blob if cfBlobHeader is configured and the blob is present,
\*    and otherwise leaves the caller's cfBlobJson as it was.
C4_RoundTrip ==
  (RoundTripDone
     /\ InjectedNames(http.options.injectRequest) \cap RewriterOwnHeaders(http.options) = {}) =>
    LET o == http.options
        orig == http.original
        back == http.incoming
    IN /\ back.result = "ok"
       /\ o.style = "PROXY" => back.url = orig.url
       /\ o.style = "HOST" =>
            /\ back.url.host = orig.url.host
            /\ back.url.path = ParsePath(orig.url.path, <<>>, FALSE, TRUE)
            /\ back.url.scheme = IF o.forwardedProtoHeader # None THEN orig.url.scheme
                                 ELSE http.physicalProtocol
            /\ back.headers["Host"] = orig.url.host
       /\ \A n \in HeaderUniverse :
            /\ n \in InjectedNames(o.injectRequest) =>
                 back.headers[n] = Injected(o.injectRequest, n, None)
            /\ n \in RewriterOwnHeaders(o) \ {"Host"} => back.headers[n] = None
            /\ n \notin InjectedNames(o.injectRequest) \cup RewriterOwnHeaders(o) =>
                 back.headers[n] = orig.headers[n]
       /\ back.cfBlobJson = IF o.cfBlobHeader # None /\ orig.cfBlobJson # None
                              THEN orig.cfBlobJson
                              ELSE http.ownCfBlobJson

\* C4 as stated: the original URL, the original headers apart from the injections, and
\* the original cf blob, for every options value.
C4_RoundTripAlways ==
  RoundTripDone =>
    /\ http.incoming.result = "ok"
    /\ http.incoming.url = http.original.url
    /\ \A n \in HeaderUniverse \ InjectedNames(http.options.injectRequest) :
          http.incoming.headers[n] = http.original.headers[n]
    /\ http.incoming.cfBlobJson = http.original.cfBlobJson

\* A round trip under the HOST style with both headers configured restored an https URL
\* and a cf blob over a physical protocol of http.
C4_Witness ==
  /\ RoundTripDone
  /\ http.options.style = "HOST"
  /\ http.options.forwardedProtoHeader # None
  /\ http.options.cfBlobHeader # None
  /\ http.options.injectRequest = <<Header("X-Api-Key", "secret")>>
  /\ http.physicalProtocol = "http"
  /\ http.original.url.scheme = "https"
  /\ http.original.cfBlobJson # None
  /\ http.incoming.url = http.original.url
  /\ http.incoming.cfBlobJson = http.original.cfBlobJson

\* The path of the request as kj::Url::parse leaves it.
DiskParsedPath == UrlParse(disk.url, "REMOTE_HREF", TRUE, FALSE).path
HasDotDot(path) == \E k \in 1..Len(path) : path[k] = ".."
DiskAnswered == disk.pc # "off" /\ disk.method # None
NoFileTouched == disk.opened = <<>> /\ disk.replacing = <<>> /\ disk.replaced = <<>>

\* C5 (as the code has it): for every disk directory service and every request: if the
\* path still has a ".." component after kj::Url::parse (a percent-encoded one), GET and
\* HEAD are answered 404, PUT is answered 405 by a service that is not writable and 403
\* by a writable one, and no file is opened, created or replaced.  A ".." written
\* literally is resolved by the parser against the component before it; what is then
\* opened or replaced is the resolved path, which has no ".." component.
C5_DotDotIsBlocked ==
  DiskAnswered =>
    /\ HasDotDot(DiskParsedPath) =>
         /\ disk.method \in {"GET", "HEAD"} => disk.status = 404
         /\ disk.method = "PUT" => disk.status = IF disk.writable THEN 403 ELSE 405
         /\ NoFileTouched
    /\ \A p \in {disk.opened, disk.replacing, disk.replaced} :
         p # <<>> =>
           /\ ~HasDotDot(p[1])
           /\ p[1] = ParsePath(disk.url.path, <<>>, TRUE, FALSE)

\* C5 as stated: a path with a ".." segment, written literally or percent-encoded, gets
\* 404 for GET and HEAD and 403 for PUT, and no file is opened, created or replaced.
C5_DotDotAlwaysRefused ==
  (DiskAnswered /\ (HasDotDot(disk.url.path) \/ HasDotDot(DiskParsedPath))) =>
    /\ disk.method \in {"GET", "HEAD"} => disk.status = 404
    /\ disk.method = "PUT" => disk.status = 403
    /\ NoFileTouched

\* A writable service has refused, with 403, a PUT whose path has a percent-encoded "..".
C5_Witness ==
  /\ DiskAnswered
  /\ disk.method = "PUT"
  /\ disk.writable
  /\ HasDotDot(DiskParsedPath)
  /\ disk.status = 403

(***************************************************************************)
(* The channel table of a worker.                                          *)
(***************************************************************************)
\* What reference d leads to once the future registered under its name has completed.
Target(d) ==
  IF d.name \notin DOMAIN services THEN InvalidConfigService
  ELSE ResolveDesignator(ownServices, d, Who("none", 0, 0),
                         PromiseValue(services[d.name])).result

\* The number of lookup bindings of worker i declared before binding b.
LookupRank(i, b) == Cardinality({k \in LookupBindings(i) : k < b})

\* The lookup bindings of worker i whose lookupService has returned.
BoundLookups(i) ==
  {coro[i].globals[g].binding :
      g \in {x \in 1..Len(coro[i].globals) :
               coro[i].globals[x].binding \in LookupBindings(i)}}

IsPrefix(s, t) == Len(s) <= Len(t) /\ SubSeq(t, 1, Len(s)) = s

\* C14: in the channel table of a worker, indices 0 and 1 both hold what its
\* globalOutbound resolved to, and the k-th binding (counting from 0) that needs a
\* lookup (service, KV namespace, R2 bucket, R2 admin) is given index k + 2, which
\* holds what the binding's reference resolved to, the Invalid-Config Service
\* included.  Entries are only ever appended while the worker is under construction,
\* and the table of a constructed Worker service never changes.
C14_ChannelTable ==
  /\ [](\A i \in 1..NumServices :
          (IsWorker(i) /\ Len(coro[i].channels) >= 2) =>
            /\ coro[i].channels[1] = Target(config.services[i].globalOutbound)
            /\ coro[i].channels[2] = Target(config.services[i].globalOutbound)
            /\ Len(coro[i].channels) = 2 + Cardinality(BoundLookups(i))
            /\ \A g \in 1..Len(coro[i].globals) :
                 LET b == coro[i].globals[g].binding IN
                 b \in LookupBindings(i) =>
                   /\ coro[i].globals[g].channel = LookupRank(i, b) + 2
                   /\ coro[i].globals[g].channel < Len(coro[i].channels)
                   /\ coro[i].channels[coro[i].globals[g].channel + 1]
                        = Target(config.services[i].bindings[b].ref)
            /\ Service(i) \in DOMAIN ownServices =>
                 /\ ownServices[Service(i)].subrequestChannels = coro[i].channels
                 /\ BoundLookups(i) = LookupBindings(i))
  /\ [][\A i \in 1..NumServices :
          /\ IsPrefix(coro[i].channels, coro'[i].channels)
          /\ IsPrefix(coro[i].globals, coro'[i].globals)
          /\ Service(i) \in DOMAIN ownServices =>
               /\ Service(i) \in DOMAIN ownServices'
               /\ ownServices'[Service(i)] = ownServices[Service(i)]]_vars

\* A worker with a service binding to an undeclared name has been constructed: its
\* table has three entries and the binding's channel, 2, holds the Invalid-Config
\* Service; a request has reached the worker.
C14_Witness ==
  \E i \in 1..NumServices :
    /\ IsWorker(i)
    /\ Service(i) \in DOMAIN ownServices
    /\ Len(ownServices[Service(i)].subrequestChannels) = 3
    /\ ownServices[Service(i)].subrequestChannels[3] = InvalidConfigService
    /\ \E g \in 1..Len(coro[i].globals) :
         coro[i].globals[g].kind = "service" /\ coro[i].globals[g].channel = 2
    /\ Len(req.chain) >= 1
    /\ req.chain[1].service = Service(i)

(***************************************************************************)
(* The blob the listener makes from the peer of a connection.              *)
(***************************************************************************)
HttpConnected == http.pc \in {"connected", "requested"}

\* C16: when no cfBlobHeader is configured, the blob the listener synthesises for a
\* connection is, for a network peer, the text {"clientIp": "<addr>"} with one space
\* after the colon and <addr> escaped as a JSON string; for a local peer, an object
\* holding clientPid and clientUid, without spaces, each absent credential omitted;
\* for a TLS peer, the blob of its underlying identity, without any field for the
\* certificate; for any other peer there is no blob.
C16_ListenerBlob ==
  (HttpConnected /\ ~HasCfBlobHeader(http.options)) =>
    LET peer == http.peer
        blob == http.connCfBlobJson
    IN /\ (peer.kind = "network" /\ peer.addr = "10.0.0.1:99") =>
             blob = "{\"clientIp\": \"10.0.0.1:99\"}"
       /\ (peer.kind = "network" /\ peer.addr = "q\"uote") =>
             blob = "{\"clientIp\": \"q\\\"uote\"}"
       /\ (peer.kind = "local" /\ peer.pid = <<7>> /\ peer.uid = <<0>>) =>
             blob = "{\"clientPid\":7,\"clientUid\":0}"
       /\ (peer.kind = "local" /\ peer.pid = <<7>> /\ peer.uid = <<>>) =>
             blob = "{\"clientPid\":7}"
       /\ (peer.kind = "local" /\ peer.pid = <<>> /\ peer.uid = <<0>>) =>
             blob = "{\"clientUid\":0}"
       /\ (peer.kind = "local" /\ peer.pid = <<>> /\ peer.uid = <<>>) => blob = "{}"
       /\ peer.kind = "other" => blob = None
       /\ blob \in {None, "{}", "{\"clientIp\": \"10.0.0.1:99\"}",
                    "{\"clientIp\": \"q\\\"uote\"}", "{\"clientPid\":7,\"clientUid\":0}",
                    "{\"clientPid\":7}", "{\"clientUid\":0}"}

\* The statement with the text {"clientIp":"<addr>"} for a network peer.
C16_ClientIpWithoutSpace ==
  (HttpConnected /\ ~HasCfBlobHeader(http.options) /\ http.peer.kind = "network") =>
    http.connCfBlobJson = "{\"clientIp\":\"" \o http.peer.addr \o "\"}"

\* A connection of a TLS peer with a network identity has been accepted by a listener
\* without cfBlobHeader, and a request has been read from it.
C16_Witness ==
  /\ http.pc = "requested"
  /\ ~HasCfBlobHeader(http.options)
  /\ http.peer.tls
  /\ http.peer.kind = "network"
  /\ http.connCfBlobJson # None

(***************************************************************************)
(* Dotfiles of a disk directory service.                                   *)
(***************************************************************************)
HasDotSegment(path) == \E k \in 1..Len(path) : StartsWithDot(path[k])
DiskExists(path) == path \in disk.files \cup Directories

\* The files directly under the directory at path whose names start with ".".
DotFilesUnder(path) ==
  {f \in disk.files : /\ Len(f) = Len(path) + 1
                      /\ SubSeq(f, 1, Len(path)) = path
                      /\ StartsWithDot(f[Len(f)])}

\* C13: a disk directory service with allowDotfiles = false answers 404 to every GET and
\* HEAD whose path has a segment that starts with ".", also when the file exists, and
\* opens nothing; the listing of a directory it sends has no entry whose name starts
\* with ".".  With allowDotfiles = true a GET or HEAD of such a path that names a file
\* or a directory is answered 200 from that file or directory, and the listing of a
\* directory has an entry for each of its files whose name starts with ".".
C13_Dotfiles ==
  DiskAnswered =>
    LET path == DiskParsedPath IN
    /\ (~disk.allowDotfiles /\ disk.method \in {"GET", "HEAD"} /\ HasDotSegment(path)) =>
         /\ disk.status = 404
         /\ NoFileTouched
         /\ disk.body = <<>>
    /\ (~disk.allowDotfiles /\ disk.body # <<>>) =>
         \A e \in disk.body[1] : ~StartsWithDot(e.name)
    /\ (disk.allowDotfiles /\ disk.method \in {"GET", "HEAD"} /\ HasDotSegment(path)
          /\ DiskExists(path)) =>
         /\ disk.status = 200
         /\ disk.opened = <<path>>
    /\ (disk.allowDotfiles /\ disk.body # <<>>) =>
         \A f \in DotFilesUnder(path) : [name |-> f[Len(f)], type |-> "file"] \in disk.body[1]
    /\ (disk.method = "GET" /\ disk.status = 200 /\ path \in Directories
          /\ path \notin disk.files) => disk.body # <<>>

\* A service with allowDotfiles = false has answered 404 to a GET of a file that exists
\* and whose name, percent-encoded in the URL, starts with ".".
C13_Witness ==
  /\ DiskAnswered
  /\ ~disk.allowDotfiles
  /\ disk.method = "GET"
  /\ disk.url.path = <<"%2ehidden">>
  /\ <<".hidden">> \in disk.files
  /\ disk.status = 404

(***************************************************************************)
(* Calls on the handles of an external, network or disk directory service. *)
(***************************************************************************)
IsAbsolute(url) == url.scheme # None /\ url.host # None
ServedBy(h) == {k \in 1..Len(svc.served) : svc.served[k].handle = h}
RequestsOn(h) ==
  {k \in 1..Len(svc.calls) : svc.calls[k].verb = "request" /\ svc.calls[k].handle = h}

\* C12: every request an external service with style = HOST sends on came in with an
\* absolute URL, has its URL in origin form (no scheme, no authority, the same path),
\* and has as headers those of the inbound request with Host set to the authority of
\* the inbound URL, whatever Host the caller gave, the forwardedProtoHeader, when
\* configured, set to the scheme of the inbound URL, and then every configured request
\* injection applied on top, so that an injection naming one of these headers prevails.
C12_HostStyleForwarding ==
  (svc.kind = "external" /\ svc.options.style = "HOST") =>
    \A k \in 1..Len(svc.served) :
      LET inbound == svc.served[k].inbound
          sent == svc.served[k].sent
          o == svc.options
      IN /\ IsAbsolute(inbound.url)
         /\ sent.url.scheme = None
         /\ sent.url.host = None
         /\ sent.url.path = inbound.url.path
         /\ \A n \in HeaderUniverse \ (IF o.cfBlobHeader = None THEN {} ELSE {o.cfBlobHeader}) :
              sent.headers[n] =
                Injected(o.injectRequest, n,
                         IF n = "Host" THEN inbound.url.host
                         ELSE IF n = o.forwardedProtoHeader THEN inbound.url.scheme
                         ELSE inbound.headers[n])

\* An external service with style = HOST and a forwardedProtoHeader has sent on a
\* request that came with a Host header of the caller's: the Host sent is the URL's.
C12_Witness ==
  /\ svc.kind = "external"
  /\ svc.options.style = "HOST"
  /\ svc.options.forwardedProtoHeader = "X-Forwarded-Proto"
  /\ \E k \in 1..Len(svc.served) :
       /\ svc.served[k].inbound.headers["Host"] = "vhost"
       /\ svc.served[k].sent.headers["Host"] = "h"
       /\ svc.served[k].sent.headers["X-Forwarded-Proto"] = "https"
       /\ svc.served[k].sent.headers["X-Api-Key"] = "secret"

\* The step is a call of `verb` on a handle.
CallMade == Len(svc'.calls) = Len(svc.calls) + 1
TheCall == svc'.calls[Len(svc'.calls)]

\* C19: on a handle of an external, network or disk directory service, sendTraces,
\* runScheduled, runAlarm and customEvent fail with the exception that says the service
\* does not support the event, prewarm succeeds, and none of the five sends anything on
\* or changes a handle or the service; an http request made on a handle not yet driven
\* is handled whatever events were delivered before: it fails only for a URL the
\* service cannot parse, and otherwise is sent on or answered.
C19_UnsupportedEvents ==
  /\ [][(CallMade /\ TheCall.verb \in Events) =>
          /\ TheCall.outcome = (IF TheCall.verb = "prewarm" THEN "ok"
                                ELSE IF svc.kind = "disk"
                                  THEN "jsg.Error: Disk directory services don't support this event type."
                                ELSE "jsg.Error: External HTTP servers don't support this event type.")
          /\ svc'.served = svc.served
          /\ svc'.handles = svc.handles
          /\ svc'.kind = svc.kind
          /\ svc'.options = svc.options]_vars
  /\ [][(CallMade /\ TheCall.verb = "request"
           /\ ~svc.handles[TheCall.handle].wrappedResponse) =>
          IF \/ svc.kind = "disk" /\ ~IsAbsolute(TheCall.inbound.url)
             \/ svc.kind = "external" /\ svc.options.style = "HOST"
                  /\ ~IsAbsolute(TheCall.inbound.url)
            THEN TheCall.outcome # "ok" /\ svc'.served = svc.served
            ELSE /\ TheCall.outcome = "ok"
                 /\ Len(svc'.served) = Len(svc.served) + 1
                 /\ svc'.served[Len(svc'.served)].handle = TheCall.handle
                 /\ svc'.served[Len(svc'.served)].inbound = TheCall.inbound]_vars

\* An event the service does not support has failed on a handle and an http request
\* made on the same handle afterwards has been sent on or answered.
C19_Witness ==
  /\ Len(svc.calls) = 2
  /\ svc.calls[1].verb = "runAlarm"
  /\ svc.calls[1].outcome # "ok"
  /\ svc.calls[2].verb = "request"
  /\ svc.calls[2].handle = svc.calls[1].handle
  /\ svc.calls[2].outcome = "ok"
  /\ Len(svc.served) = 1

\* C20 (as the code has it): a handle of an external service is driven by at most one
\* http call: a second http call on it fails and sends nothing on.  A handle of a
\* network or of a disk directory service is the service itself and keeps no record of
\* the calls made on it: every http call on it is handled as the first one is.
C20_SingleShotExternalOnly ==
  /\ [](svc.kind = "external" =>
          \A h \in 1..Len(svc.handles) :
            /\ Cardinality(ServedBy(h)) <= 1
            /\ svc.handles[h].wrappedResponse = (RequestsOn(h) # {})
            /\ \A k \in RequestsOn(h) :
                 (\E j \in RequestsOn(h) : j < k) =>
                    svc.calls[k].outcome = "object should only receive one request")
  /\ [][(CallMade /\ TheCall.verb = "request" /\ svc.kind = "external"
           /\ RequestsOn(TheCall.handle) # {}) => svc'.served = svc.served]_vars
  /\ [](svc.kind \in {"network", "disk"} =>
          \A h \in 1..Len(svc.handles) :
            /\ svc.handles[h] = ServiceItself
            /\ \A k \in RequestsOn(h) :
                 svc.calls[k].outcome = "ok" <=>
                   (svc.kind = "network" \/ IsAbsolute(svc.calls[k].inbound.url)))
  /\ [](svc.kind = "network" =>
          \A h \in 1..Len(svc.handles) : Cardinality(ServedBy(h)) = Cardinality(RequestsOn(h)))

\* C20 as stated: no handle of any of the three kinds of service has more than one
\* http call that did not fail, nor has anything been sent on or answered for more than
\* one http call on it.
C20_SingleShotEveryKind ==
  \A h \in 1..Len(svc.handles) :
    /\ Cardinality(ServedBy(h)) <= 1
    /\ Cardinality({k \in RequestsOn(h) : svc.calls[k].outcome = "ok"}) <= 1

\* A second http call has been made on a handle of an external service and has failed;
\* only the first was sent on.
C20_Witness ==
  /\ svc.kind = "external"
  /\ Len(svc.calls) = 2
  /\ svc.calls[1].verb = "request"
  /\ svc.calls[2].verb = "request"
  /\ svc.calls[1].handle = svc.calls[2].handle
  /\ svc.calls[1].outcome = "ok"
  /\ svc.calls[2].outcome = "object should only receive one request"
  /\ Len(svc.served) = 1

(***************************************************************************)
(* Command-line overrides.                                                 *)
(***************************************************************************)
\* The step in which Server::run deals with service i, and with socket s.
ConfiguresService(i) == pc = "services" /\ ip = i /\ (pc' # pc \/ ip' # ip)
StartsSocket(s) == pc = "sockets" /\ ip = s /\ (pc' # pc \/ ip' # ip)

NamesOfKind(kind) ==
  {config.services[i].name : i \in {j \in 1..NumServices : config.services[j].kind = kind}}
SocketNames == {config.sockets[s].name : s \in 1..NumSockets}
OverrideNames == {"main", "second", "nosuch", "a", "b", "d"}

UnmatchedError(kind, n) == ConfigError(kind, Who("override", 0, 0), n)
NewCopies(e) == CopiesIn(e, errors') - CopiesIn(e, errors)

\* What the override map `given` does for a descriptor named n whose own address or
\* path is `own`: the address used is `used` and the map becomes `left`.
OverrideApplied(given, left, n, own, used) ==
  IF n \in DOMAIN given
    THEN used = given[n] /\ left = [x \in DOMAIN given \ {n} |-> given[x]]
    ELSE used = own /\ left = given

\* C15: an override given on the command line (--socket-addr, --external-addr,
\* --directory-path) is used by the first descriptor of its kind that has its name, in
\* place of the address or path the descriptor has in the configuration, and is
\* removed from the map by that, so that no second descriptor uses it; a descriptor
\* of another kind, or with another name, neither uses nor removes it.  The overrides
\* still in the maps after the last socket are those no descriptor has matched, and
\* exactly one error is reported for each of them; none is reported for any other.
C15_Overrides ==
  /\ [][\A i \in 1..NumServices :
          ConfiguresService(i) =>
            LET d == config.services[i] IN
            /\ IF d.kind = "external"
                 THEN /\ OverrideApplied(externalOverrides, externalOverrides', d.name,
                                         d.address, promise'[i].address)
                      /\ promise'[i].value = InvalidConfigService
                           <=> promise'[i].address = None
                 ELSE externalOverrides' = externalOverrides
            /\ IF d.kind = "disk"
                 THEN OverrideApplied(directoryOverrides, directoryOverrides', d.name,
                                      d.path, promise'[i].address)
                 ELSE directoryOverrides' = directoryOverrides
            /\ socketOverrides' = socketOverrides]_vars
  /\ [][\A s \in 1..NumSockets :
          StartsSocket(s) =>
            LET sd == config.sockets[s] IN
            /\ \E used \in {None, "cfg-addr", "cli-addr", InheritedListener} :
                 /\ OverrideApplied(socketOverrides, socketOverrides', sd.name,
                                    sd.address, used)
                 /\ sock'[s].address = IF sd.kind \in {"http", "https"} THEN used ELSE None
            /\ externalOverrides' = externalOverrides
            /\ directoryOverrides' = directoryOverrides]_vars
  /\ [][/\ pc # "services" =>
             externalOverrides' = externalOverrides /\ directoryOverrides' = directoryOverrides
        /\ pc # "sockets" => socketOverrides' = socketOverrides
        /\ \A n \in OverrideNames :
             /\ NewCopies(UnmatchedError("unmatchedSocketOverride", n))
                  = IF pc = "report" /\ n \in DOMAIN socketOverrides THEN 1 ELSE 0
             /\ NewCopies(UnmatchedError("unmatchedExternalOverride", n))
                  = IF pc = "report" /\ n \in DOMAIN externalOverrides THEN 1 ELSE 0
             /\ NewCopies(UnmatchedError("unmatchedDirectoryOverride", n))
                  = IF pc = "report" /\ n \in DOMAIN directoryOverrides THEN 1 ELSE 0]_vars
  /\ [](pc \in {"report", "build", "serving"} =>
          /\ DOMAIN socketOverrides \cap SocketNames = {}
          /\ DOMAIN externalOverrides \cap NamesOfKind("external") = {}
          /\ DOMAIN directoryOverrides \cap NamesOfKind("disk") = {})

\* Server::run has returned: the socket "main" listens on the address of its override
\* and the external service "b" is made with the address of its own, both in place of
\* the addresses of the configuration; the overrides for the socket "nosuch" and for
\* the external service "a" (a worker) have been reported, and no other.
C15_Witness ==
  /\ pc = "serving"
  /\ config.sockets[1].address = "cfg-addr"
  /\ sock[1].address = "cli-addr"
  /\ config.services[2].address = "cfg-addr"
  /\ promise[2].address = "cli-addr"
  /\ CopiesIn(UnmatchedError("unmatchedSocketOverride", "nosuch"), errors) = 1
  /\ CopiesIn(UnmatchedError("unmatchedExternalOverride", "a"), errors) = 1
  /\ CopiesIn(UnmatchedError("unmatchedExternalOverride", "b"), errors) = 0
  /\ CopiesIn(UnmatchedError("unmatchedSocketOverride", "main"), errors) = 0

(***************************************************************************)
(* A socket whose service is not declared.                                 *)
(***************************************************************************)
\* Socket s has a descriptor Server::run accepts: an address, of its own or from an
\* override, and a type the code knows.
ValidSocket(s) == sock[s].address # None
ServesUndeclared(s) == ~Declared(config.sockets[s].service.name)
UndeclaredError(s) ==
  ConfigError("noSuchService", Who("socket", s, 0), config.sockets[s].service.name)

\* C11: for a socket with a valid descriptor whose service names no declared service,
\* exactly one configuration error is reported, when its lookup reads the registry,
\* and the lookup gives the Invalid-Config Service without failing: once the listener
\* is bound the socket goes on to accept connections.  Every request that arrives on
\* it is answered 500 without a handle on any service.  No request, whatever its
\* outcome, stops an accept loop, and whenever the event loop waits for I/O every
\* accepting socket, this one and the others, can take a new connection.
C11_UndeclaredServiceSocket ==
  /\ [](\A s \in 1..NumSockets :
          (ValidSocket(s) /\ ServesUndeclared(s)) =>
            /\ CopiesIn(UndeclaredError(s), errors)
                 = IF lookup[Owner("socket", s)].state = "done" THEN 1 ELSE 0
            /\ lookup[Owner("socket", s)].state \in {"evalLater", "done"}
            /\ lookup[Owner("socket", s)].state = "done" =>
                 lookup[Owner("socket", s)].result = InvalidConfigService
            /\ sock[s].accepting => sock[s].service = InvalidConfigService
            /\ (req.state # "idle" /\ req.sock = s) =>
                 (req.state = "done" /\ req.status = 500 /\ req.chain = <<>>))
  /\ [][\A s \in 1..NumSockets :
          (ValidSocket(s) /\ ServesUndeclared(s) /\ ReadyToListen(s) /\ sock'[s] # sock[s]
             /\ ~sock[s].accepting) =>
            (sock'[s].accepting /\ fatal' = fatal)]_vars
  /\ [][req' # req => (sock' = sock /\ fatal' = fatal)]_vars
  /\ [](\A t \in 1..NumSockets :
          (EventLoopRunning /\ ~EventQueued /\ sock[t].accepting) =>
            ENABLED AcceptConnection(t, PeerIdentity(FALSE, "network", "10.0.0.1:99",
                                                     <<>>, <<>>)))

\* A request on the socket "second", whose service is not declared, has been answered
\* 500; the socket still accepts, and after that request a connection has been
\* accepted on the other socket.
C11_Witness ==
  /\ NumSockets = 2
  /\ ServesUndeclared(2)
  /\ req.state = "done"
  /\ req.sock = 2
  /\ req.status = 500
  /\ CopiesIn(UndeclaredError(2), errors) = 1
  /\ sock[2].accepting
  /\ sock[1].accepting
  /\ conn.sock = 1

(***************************************************************************)
(* The promise Server::run returns.                                        *)
(***************************************************************************)
\* The tasks of the task set, told from the state of what they run: the construction
\* of service i, and the chain of socket s from its bind to the end of its accept loop.
ConstructionPending(i) == promise[i].state \notin {"resolved", "rejected"}
SocketTaskPending(s) == sock[s].listener \in {"binding", "wrapping", "bound"}
Drained ==
  /\ \A i \in 1..NumServices : ~ConstructionPending(i)
  /\ \A s \in 1..NumSockets : ~SocketTaskPending(s)
ATaskFailed ==
  \/ \E i \in 1..NumServices : promise[i].state = "rejected"
  \/ \E s \in 1..NumSockets : sock[s].listener = "failed"
AcceptLoopRunning == \E s \in 1..NumSockets : sock[s].accepting

\* C18: the promise Server::run returned is fulfilled only when every task of the task
\* set has ended and none has failed, and is rejected only when a task has failed.  It
\* never changes once completed.  While an accept loop runs and no task has failed it
\* is not completed.  From the moment a task has failed, or the set has drained, the
\* completion is queued in the event loop, so no connection or request is taken before
\* it, and it does come: a failure leads to the rejection, a drained set without
\* failure to the fulfilment.
C18_RunPromise ==
  /\ [](/\ fatal <=> ATaskFailed
        /\ runPromise = "fulfilled" => (Drained /\ ~ATaskFailed)
        /\ runPromise = "rejected" => ATaskFailed
        /\ (AcceptLoopRunning /\ ~ATaskFailed) => runPromise \in {"none", "pending"}
        /\ (runPromise = "pending" /\ (ATaskFailed \/ Drained)) => EventQueued)
  /\ [][(runPromise \in {"fulfilled", "rejected"}) => (runPromise' = runPromise)]_vars
  /\ [][(runPromise = "pending" /\ runPromise' # runPromise) =>
          (runPromise' = IF ATaskFailed THEN "rejected" ELSE "fulfilled")]_vars
  /\ (ATaskFailed ~> runPromise = "rejected")
  /\ ((Drained /\ ~ATaskFailed /\ pc = "serving") ~> runPromise = "fulfilled")

\* The accept loop of one socket has died while that of another was running, and the
\* promise is rejected with the other loop still running.
C18_Witness ==
  /\ runPromise = "rejected"
  /\ \E s, t \in 1..NumSockets :
        /\ sock[s].listener = "failed"
        /\ lookup[Owner("socket", s)].state = "done"
        /\ sock[t].accepting
  /\ \A i \in 1..NumServices : promise[i].state = "resolved"

\* The task set has drained without a failure and the promise is fulfilled.
C18_Fulfilled == runPromise = "fulfilled" /\ NumServices > 0

(***************************************************************************)
(* Configuration errors do not stop the server.                            *)
(***************************************************************************)
\* How far Server::run has come: service i has been through makeService, socket s
\* through the socket loop, the unmatched overrides have been reported.
Configured(i) == pc # "services" \/ ip > i
Started(s) == pc \in {"report", "build", "serving"} \/ (pc = "sockets" /\ ip > s)
OverridesReported == pc \in {"build", "serving"}

\* The problems of the configuration, each with the error the code has for it.
ServiceProblems(i) ==
  LET d == config.services[i]
      who == Who("service", i, 0)
  IN {ConfigError("noAddress", who, d.name) :
        x \in {y \in {d.kind} : y = "external" /\ promise[i].address = None}}
     \cup {ConfigError("noPath", who, d.name) :
             x \in {y \in {d.kind} : y = "disk" /\ promise[i].address = None}}
     \cup {ConfigError("unrecognizedService", who, d.name) :
             x \in {y \in {d.kind} :
                      y \notin {"unspecified", "external", "network", "worker", "disk"}}}
     \cup {ConfigError("duplicateService", who, d.name) :
             x \in {j \in 1..(i - 1) : config.services[j].name = d.name /\ j = FirstDeclaration(d.name)}}
SocketProblems(s) ==
  LET sd == config.sockets[s]
      who == Who("socket", s, 0)
  IN {ConfigError("noAddress", who, sd.name) :
        x \in {y \in {sd.name} : sock[s].listener = "none"
                                   /\ sd.kind \in {"http", "https"}}}
     \cup {ConfigError("unknownSocketType", who, sd.name) :
             x \in {y \in {sd.kind} : sock[s].listener = "none"
                                        /\ y \notin {"http", "https"}}}
KeyProblems(i) ==
  {ConfigError(config.services[i].bindings[k].kind, Who("binding", i, k),
               config.services[i].name) :
     k \in {j \in 1..Len(config.services[i].bindings) :
              config.services[i].bindings[j].kind \in
                {"cryptoKeyInvalidHex", "cryptoKeyInvalidBase64", "cryptoKeyInvalidPem",
                 "cryptoKeyWrongPemType"}}}
OverrideProblems ==
  {ConfigError("unmatchedSocketOverride", Who("override", 0, 0), n) :
     n \in DOMAIN socketOverrides}
  \cup {ConfigError("unmatchedExternalOverride", Who("override", 0, 0), n) :
          n \in DOMAIN externalOverrides}
  \cup {ConfigError("unmatchedDirectoryOverride", Who("override", 0, 0), n) :
          n \in DOMAIN directoryOverrides}
ReferenceProblems ==
  {UndeclaredError(s) :
     s \in {t \in 1..NumSockets : lookup[Owner("socket", t)].state = "done"
                                    /\ ServesUndeclared(t)}}

\* What has been reported so far has to be exactly this.
ProblemsHandled ==
  UNION {ServiceProblems(i) : i \in {j \in 1..NumServices : Configured(j)}}
  \cup UNION {SocketProblems(s) : s \in {t \in 1..NumSockets : Started(t)}}
  \cup UNION {KeyProblems(i) : i \in {j \in 1..NumServices : coro[j].pc \notin
                                                              {"none", "evalLater", "outbound"}}}
  \cup (IF OverridesReported THEN OverrideProblems ELSE {})
  \cup ReferenceProblems

\* A failure that is not an error of the configuration: an address that does not
\* resolve, a listener that cannot bind, an accept that fails.
ResolutionFailed == \E i \in 1..NumServices :
                       config.services[i].kind = "external" /\ promise[i].state = "rejected"
ListenerFailed == \E s \in 1..NumSockets :
                     sock[s].listener = "failed"
                       /\ lookup[Owner("socket", s)].state # "rejected"
RuntimeFailure == ResolutionFailed \/ ListenerFailed

\* Service i is declared without any problem and refers to no other declared service.
Unaffected(i) ==
  LET d == config.services[i] IN
  /\ i = FirstDeclaration(d.name)
  /\ CASE d.kind = "worker" -> /\ d.hasCompatibilityDate
                               /\ d.bindings = <<>>
                               /\ d.globalOutbound.name = "internet"
                               /\ ~Declared("internet")
       [] d.kind = "network" -> TRUE
       [] d.kind \in {"external", "disk"} -> Configured(i) => promise[i].address # None
       [] OTHER -> FALSE
ServesUnaffected(s) ==
  /\ config.sockets[s].kind \in {"http", "https"}
  /\ Started(s) /\ ValidSocket(s)
  /\ Declared(config.sockets[s].service.name)
  /\ config.sockets[s].service.entrypoint = None
  /\ Unaffected(FirstDeclaration(config.sockets[s].service.name))

\* C17: the fatal promise is rejected only by a failure that is not an error of the
\* configuration, and never in a step that reports a configuration error.  Every
\* problem of the configuration the startup has come to (an address or path missing, a
\* reference to an undeclared service, a duplicate name, an unknown enum value, a wrong
\* PEM type, invalid hex, an override nothing used) has been reported exactly once, and
\* nothing else has.  A socket with a valid descriptor whose service is declared without
\* a problem gets that service: its requests are never answered 500 and end 200, unless
\* the service itself throws while it handles one; and unless such a failure occurs the
\* socket does start accepting.
C17_ConfigErrorsNotFatal ==
  /\ [](/\ fatal => RuntimeFailure
        /\ errors = SetToBag(ProblemsHandled)
        /\ \A s \in 1..NumSockets :
              ServesUnaffected(s) =>
                /\ sock[s].accepting =>
                     sock[s].service = Service(FirstDeclaration(config.sockets[s].service.name))
                /\ (req.state # "idle" /\ req.sock = s /\ ~req.threw) =>
                     /\ req.status # 500
                     /\ req.chain # <<>>
                     /\ req.chain[1].service = sock[s].service
                     /\ req.state = "done" => req.status = 200)
  /\ [][fatal' # fatal => errors' = errors]_vars
  /\ (pc = "serving" ~>
        (RuntimeFailure \/ \A s \in 1..NumSockets : ServesUnaffected(s) => sock[s].accepting))

\* The configuration declares the service "b" twice, the first time without an address;
\* both errors have been reported, nothing is fatal, and a request on the socket of the
\* worker "a", which has no problem, has been answered 200.
C17_Witness ==
  /\ ~fatal
  /\ ~RuntimeFailure
  /\ \E i \in 1..NumServices :
        CopiesIn(ConfigError("duplicateService", Who("service", i, 0), "b"), errors) = 1
  /\ \E i \in 1..NumServices :
        CopiesIn(ConfigError("noAddress", Who("service", i, 0), "b"), errors) = 1
  /\ \E s \in 1..NumSockets :
        /\ ServesUnaffected(s)
        /\ sock[s].accepting
        /\ req.sock = s
        /\ req.state = "done"
        /\ ~req.threw
        /\ req.status = 200

(***************************************************************************)
(* A HOST-style socket and the Host header.                                *)
(***************************************************************************)
HostStyleRequest == http.pc = "requested" /\ http.options.style = "HOST"
StartRequestInvoked == http.dispatch.outcome = "startRequest"

\* C21: on a socket of style HOST every request without a Host header is answered 400
\* and the service's startRequest is not invoked for it; a request with a Host header
\* is never answered 400 by the listener.
C21_MissingHostIs400 ==
  HostStyleRequest =>
    IF http.inbound.headers["Host"] = None
      THEN http.dispatch.outcome = "sendError400" /\ ~StartRequestInvoked
      ELSE http.dispatch.outcome # "sendError400"

\* A request without a Host header whose request target is not in origin form has
\* arrived on a HOST-style socket: kj::Url::parse has thrown before the Host header was
\* looked at, and the request ends in the listener's exception path.
C21_Witness ==
  /\ HostStyleRequest
  /\ http.inbound.headers["Host"] = None
  /\ http.inbound.url.scheme # None
  /\ http.dispatch.outcome = "exception"
  /\ ~StartRequestInvoked

(***************************************************************************)
(* Uncaught exceptions while a request is handled.                         *)
(***************************************************************************)
\* C22: when the handling of a request throws, the listener answers 500 if and only if
\* no response had been started for it; a request never gets more than one response, so
\* a response that was started is not followed by the 500.  The step in which a request
\* fails changes no socket and neither the fatal promise nor the promise of Server::run,
\* and after it every accepting socket can still take a connection as soon as the event
\* loop waits for I/O.
C22_UncaughtException ==
  /\ [](/\ req.responses <= 1
        /\ req.threw =>
             /\ req.state = "done"
             /\ req.status = 500 <=> ~req.started
             /\ req.responses = 1
             /\ \A t \in 1..NumSockets :
                  (~EventQueued /\ sock[t].accepting) =>
                    ENABLED AcceptConnection(t, PeerIdentity(FALSE, "network", "10.0.0.2:7",
                                                             <<>>, <<>>)))
  /\ [][(req'.threw /\ req' # req) =>
          (sock' = sock /\ fatal' = fatal /\ runPromise' = runPromise)]_vars

\* A worker has thrown after it had started its response: the request has ended with
\* the one response of the worker, no 500 was sent, nothing is fatal and the socket
\* still accepts.
C22_Witness ==
  /\ req.threw
  /\ req.started
  /\ req.chain # <<>>
  /\ req.status = 200
  /\ req.responses = 1
  /\ ~fatal
  /\ sock[req.sock].accepting

\* A worker has thrown before any response was started and the request was answered 500.
C22_AnsweredInternalError ==
  /\ req.threw
  /\ ~req.started
  /\ req.chain # <<>>
  /\ req.status = 500

(***************************************************************************)
(* A socket accepts only once its listener and its service are there.      *)
(***************************************************************************)
SocketLookup(s) == lookup[Owner("socket", s)]
ListenerStage(s) == sock[s].listener

\* The stages the listener promise of a socket of this kind may go through, in order.
NextStages(kind, stage) ==
  CASE stage = "none" -> {"binding", AfterListen(kind)}
    [] stage = "binding" -> {AfterListen(kind), "failed"}
    [] stage = "wrapping" -> {"bound"}
    [] stage = "bound" -> {"failed"}
    [] OTHER -> {}

\* C23: on every socket a connection is accepted only after the lookup of its service
\* has returned, which it does only once the promise of the referenced service has
\* resolved.  The listener promise goes through its stages in order: address parsed and
\* port bound (unless the listener was handed in), then, for https, the TLS wrap.  The
\* accept loop starts in a step that finds the listener complete and the lookup
\* returned, and it serves with the service the lookup returned.  A listener that has
\* an inherited override is bound from the start.
C23_AcceptAfterService ==
  /\ [](\A s \in 1..NumSockets :
          /\ (sock[s].accepting \/ conn.sock = s) =>
               /\ SocketLookup(s).state = "done"
               /\ PromiseState(SocketLookup(s).target) = "resolved"
               /\ sock[s].service = SocketLookup(s).result
          /\ sock[s].accepting => ListenerStage(s) = "bound")
  /\ [][\A s \in 1..NumSockets :
          /\ ListenerStage(s)' # ListenerStage(s) =>
               ListenerStage(s)' \in NextStages(config.sockets[s].kind, ListenerStage(s))
          /\ (sock'[s].accepting /\ ~sock[s].accepting) =>
               /\ ListenerStage(s) = "bound"
               /\ SocketLookup(s).state = "done"
               /\ UNCHANGED lookup]_vars

\* An https socket whose listener went through the TLS wrap has accepted a connection,
\* after the external service it serves had resolved its address.
C23_Witness ==
  \E s \in 1..NumSockets :
    /\ config.sockets[s].kind = "https"
    /\ sock[s].address # InheritedListener
    /\ conn.sock = s
    /\ sock[s].accepting
    /\ sock[s].service # InvalidConfigService
    /\ config.services[sock[s].service.idx].kind = "external"

(***************************************************************************)
(* A socket does not wait for services it does not reference.              *)
(***************************************************************************)
\* The services socket s references, directly or through the references of workers.
ReferencedBy(s) ==
  IF Declared(config.sockets[s].service.name)
    THEN ReachableFrom({FirstDeclaration(config.sockets[s].service.name)}, NumServices)
    ELSE {}
Unrelated(s) == (1..NumServices) \ ReferencedBy(s)
SomeUnrelatedPending(s) ==
  \E i \in Unrelated(s) : promise[i].state \notin {"resolved", "rejected"}

\* C24: when the listener of a socket is bound and the lookup of its service has
\* returned, the continuation that starts its accept loop is armed and can run,
\* whatever the state of the services it does not reference; the lookup of the socket
\* returns as soon as the services it references, directly or through workers, have
\* resolved; and an accepting socket whose event loop waits for I/O can take a
\* connection and have its request handled while such services are pending.
C24_UnrelatedServicesDoNotBlock ==
  \A s \in 1..NumSockets :
    /\ (/\ pc = "serving"
        /\ sock[s].listener = "bound"
        /\ lookup[Owner("socket", s)].state = "done"
        /\ ~sock[s].accepting) =>
          (EventQueued /\ ENABLED SocketListen(s))
    /\ (/\ pc = "serving"
        /\ lookup[Owner("socket", s)].state = "await"
        /\ \A i \in ReferencedBy(s) : promise[i].state = "resolved") =>
          ENABLED LookupResolve(Owner("socket", s))
    /\ (sock[s].accepting /\ ~EventQueued) =>
          /\ ENABLED AcceptConnection(s, PeerIdentity(FALSE, "network", "10.0.0.3:5",
                                                      <<>>, <<>>))
          /\ (conn.sock = s /\ req.state # "running") =>
               \A r \in ServerRequests : ENABLED ConnectionRequest(r)

\* A request on a socket has been answered 200 while a service the socket does not
\* reference is still pending, with nothing left in the event loop's queue that could
\* complete it.
C24_Witness ==
  \E s \in 1..NumSockets :
    /\ sock[s].accepting
    /\ SomeUnrelatedPending(s)
    /\ ~EventQueued
    /\ req.sock = s
    /\ req.state = "done"
    /\ ~req.threw
    /\ req.status = 200

(***************************************************************************)
(* Designators with an entrypoint.                                         *)
(***************************************************************************)
\* What lookupService has to give for designator d once the named service, declared
\* at index t, is there: the shim, or the Invalid-Config Service with one error.
ExportsEntrypoint(t, e) == IsWorker(t) /\ e \in config.services[t].entrypoints
EntrypointErrors(who, d) ==
  [noSuchEntrypoint |-> CopiesIn(ConfigError("noSuchEntrypoint", who, d.name), errors),
   notAWorker |-> CopiesIn(ConfigError("notAWorker", who, d.name), errors)]
EntrypointOutcome(d, who, result) ==
  LET t == FirstDeclaration(d.name)
      reported == EntrypointErrors(who, d)
  IN IF ExportsEntrypoint(t, d.entrypoint)
       THEN /\ result = WorkerEntrypointService(t, d.entrypoint)
            /\ reported = [noSuchEntrypoint |-> 0, notAWorker |-> 0]
     ELSE IF IsWorker(t)
       THEN /\ result = InvalidConfigService
            /\ reported = [noSuchEntrypoint |-> 1, notAWorker |-> 0]
     ELSE /\ result = InvalidConfigService
          /\ reported = [noSuchEntrypoint |-> 0, notAWorker |-> 1]

\* The designators with an entrypoint and a declared service: of socket s, and of the
\* bindings of worker i, whose lookups fill the channels after the two of the
\* global outbound.
SocketAsksEntrypoint(s) ==
  /\ config.sockets[s].service.entrypoint # None
  /\ Declared(config.sockets[s].service.name)
BindingAsksEntrypoint(i, k) ==
  /\ k \in LookupBindings(i)
  /\ config.services[i].bindings[k].ref.entrypoint # None
  /\ Declared(config.services[i].bindings[k].ref.name)

IsShim(h) == h.obj = "entrypoint"
ThroughShim(h, cf) == WorkerInterface(Service(h.idx), "worker", h.entrypoint, cf)

\* C25: a lookupService whose designator names an entrypoint of a declared service
\* returns a new entrypoint shim when that service is a worker which exports the
\* entrypoint, and reports nothing; when the worker does not export it, or the service
\* is not a worker, it reports exactly one error and returns the Invalid-Config
\* Service.  This holds for the lookups of sockets and for those of worker bindings.
\* A startRequest on a shim, from a listener or as a sub-request, starts a request on
\* the worker of the shim with the entrypoint of the shim and the metadata of the caller.
C25_EntrypointLookup ==
  /\ [](/\ \A s \in 1..NumSockets :
             (SocketAsksEntrypoint(s) /\ lookup[Owner("socket", s)].state = "done") =>
               EntrypointOutcome(config.sockets[s].service, Who("socket", s, 0),
                                 lookup[Owner("socket", s)].result)
        /\ \A i \in 1..NumServices :
             (IsWorker(i) /\ promise[i].state = "resolved") =>
               \A k \in 1..Len(config.services[i].bindings) :
                 BindingAsksEntrypoint(i, k) =>
                   EntrypointOutcome(config.services[i].bindings[k].ref, Who("worker", i, k),
                                     ownServices[Service(i)].subrequestChannels[
                                       3 + LookupRank(i, k)]))
  /\ [][/\ (req' # req /\ req.state # "running" /\ req'.chain # <<>>
               /\ IsShim(sock[conn.sock].service)) =>
             req'.chain = <<ThroughShim(sock[conn.sock].service, conn.cfBlobJson)>>
        /\ (req.state = "running" /\ Len(req'.chain) = Len(req.chain) + 1) =>
             LET top == req.chain[Len(req.chain)]
                 new == req'.chain[Len(req'.chain)]
                 chans == ownServices[top.service].subrequestChannels
             IN \E c \in 1..Len(chans) :
                  /\ new = StartRequest(ownServices, chans[c], Metadata(top.cfBlobJson))
                  /\ IsShim(chans[c]) => new = ThroughShim(chans[c], top.cfBlobJson)]_vars

\* A worker's request has gone on, through the shim one of its bindings was resolved
\* to, to the entrypoint "ep" of the worker "c", while another of its bindings, which
\* names an entrypoint of a service that is not a worker, was reported.
C25_Witness ==
  /\ Len(req.chain) = 2
  /\ req.chain[2].entrypoint = "ep"
  /\ req.chain[2].cfBlobJson = req.chain[1].cfBlobJson
  /\ req.chain[2].cfBlobJson # None
  /\ config.services[req.chain[2].service.idx].name = "c"
  /\ \E i \in 1..NumServices, k \in 1..2 :
        CopiesIn(ConfigError("notAWorker", Who("worker", i, k), "b"), errors) = 1

(***************************************************************************)
(* Workers with reportable errors.                                         *)
(***************************************************************************)
\* The text of a configuration error of worker i as far as the code builds it from
\* names: ErrorReporter::addError (lines 960-962), the errorContext of a binding
\* (line 1061) or of globalOutbound (line 1045), and lookupService (lines 1321-1323).
BindingName(k) == <<"b1", "b2", "b3", "b4">>[k]
ServicePrefix(name) == <<"service ", name, ": ">>
AddError(name, error) == ServicePrefix(name) \o error
ErrorContext(name, k) ==
  IF k = 0 THEN <<"Worker \"", name, "\"'s globalOutbound">>
  ELSE <<"Worker \"", name, "\"'s binding \"", BindingName(k), "\"">>

ReportedText(e) ==
  LET name == config.services[e.who.i].name IN
  CASE e.err = "noCompatibilityDate" ->
         AddError(name, <<"Worker must specify compatibiltyDate.">>)
    [] e.err \in {"unspecifiedBinding", "wasmInModules", "unrecognizedBinding"} ->
         AddError(name, ErrorContext(name, e.who.b) \o <<e.err>>)
    [] e.err \in {"noSuchService", "noSuchEntrypoint", "notAWorker"} ->
         ErrorContext(name, e.who.b) \o <<" refers to a service \"", e.name, "\"", e.err>>
    [] OTHER ->
         AddError(name, <<"CryptoKey binding \"", BindingName(e.who.b), "\"", e.err>>)

\* Worker i has no binding of a kind that is not implemented.
Implemented(i) ==
  \A k \in 1..Len(config.services[i].bindings) :
     config.services[i].bindings[k].kind \notin {"parameter", "durableObjectNamespace"}

\* The errors the descriptor of worker i is in, one for each thing wrong with it.
CryptoKeyErrors ==
  {"cryptoKeyInvalidHex", "cryptoKeyInvalidBase64", "cryptoKeyInvalidPem",
   "cryptoKeyWrongPemType", "cryptoKeyUnknownType", "cryptoKeyUnknownAlgorithm"}
BindingErrors(i) ==
  LET d == config.services[i]
      wrong(kind) == IF kind = "unspecified" THEN "unspecifiedBinding"
                     ELSE IF kind = "wasmModule" /\ ~d.isServiceWorkerScript THEN "wasmInModules"
                     ELSE IF kind \in CryptoKeyErrors THEN kind
                     ELSE None
  IN {ConfigError(wrong(d.bindings[k].kind), Who("binding", i, k), d.name) :
        k \in {j \in 1..Len(d.bindings) : wrong(d.bindings[j].kind) # None}}
UnresolvedReferences(i) ==
  LET d == config.services[i] IN
  {ConfigError("noSuchService", Who("worker", i, k), d.bindings[k].ref.name) :
     k \in {j \in LookupBindings(i) : ~Declared(d.bindings[j].ref.name)}}
    \cup (IF Declared(d.globalOutbound.name) \/ d.globalOutbound.name = "internet" THEN {}
          ELSE {ConfigError("noSuchService", Who("worker", i, 0), d.globalOutbound.name)})
ReportableErrors(i) ==
  BindingErrors(i) \cup UnresolvedReferences(i)
    \cup (IF config.services[i].hasCompatibilityDate THEN {}
          ELSE {ConfigError("noCompatibilityDate", Who("service", i, 0),
                            config.services[i].name)})

\* The errors reported so far on account of worker i.
WorkerErrors(i) ==
  {e \in BagToSet(errors) : e.who.i = i /\ e.who.k \in {"service", "binding", "worker"}}

\* A service that worker i refers to has failed to be constructed (its address did not
\* resolve), which is a failure at run time and no error of the configuration.
ReferenceFailed(i) ==
  \E j \in 1..NumServices :
     /\ promise[j].state = "rejected"
     /\ \E k \in LookupBindings(i) : config.services[i].bindings[k].ref.name
                                       = config.services[j].name

\* For a worker whose bindings are all of implemented kinds: each error of its
\* descriptor is reported once and nothing else is, the future of its construction is
\* not rejected unless a service it refers to failed at run time, and it resolves, with
\* all the errors reported, to a Worker service.
WorkerIsConstructed(i) ==
  /\ WorkerErrors(i) \subseteq ReportableErrors(i)
  /\ \A e \in WorkerErrors(i) : CopiesIn(e, errors) = 1
  /\ promise[i].state = "rejected" => ReferenceFailed(i)
  /\ promise[i].state = "resolved" =>
       /\ WorkerErrors(i) = ReportableErrors(i)
       /\ promise[i].value = Service(i)
       /\ Service(i) \in DOMAIN ownServices
       /\ ownServices[Service(i)].kind = "worker"
WorkerCompletes(i) ==
  (pc = "done" /\ IsWorker(i) /\ Implemented(i))
    ~> (promise[i].state = "resolved" \/ ReferenceFailed(i))

UnimplementedIn(i) ==
  {k \in 1..Len(config.services[i].bindings) :
      config.services[i].bindings[k].kind \in {"parameter", "durableObjectNamespace"}}
NotImplemented(i, k) ==
  ConfigError("unimplementedBinding", Who("binding", i, k), config.services[i].name)

\* C27: for a worker with a parameter binding or a durable-object-namespace binding, a
\* configuration error is reported for it, the remaining bindings are still processed
\* (their errors are reported, their services looked up), the future of the worker's
\* construction is not rejected and resolves to a Worker service, and the fatal promise
\* is not rejected on its account.
C27_UnimplementedIsConfigError ==
  \A i \in 1..NumServices :
     (IsWorker(i) /\ UnimplementedIn(i) # {}) =>
       /\ promise[i].state = "rejected" => ReferenceFailed(i)
       /\ fatal => RuntimeFailure
       /\ promise[i].state = "resolved" =>
            /\ \A k \in UnimplementedIn(i) : CopiesIn(NotImplemented(i, k), errors) = 1
            /\ ReportableErrors(i) \subseteq BagToSet(errors)
            /\ Len(ownServices[Service(i)].subrequestChannels)
                 = 2 + Cardinality(LookupBindings(i))
            /\ ownServices[Service(i)].kind = "worker"

\* makeWorker has reached a binding that is not implemented, after an unspecified
\* binding that it reported, while every other service was constructed.
C27_Witness ==
  /\ IsWorker(1)
  /\ UnimplementedIn(1) = {2}
  /\ coro[1].pc \in {"failed", "done"}
  /\ CopiesIn(ConfigError("unspecifiedBinding", Who("binding", 1, 1), "a"), errors) = 1
  /\ ~ReferenceFailed(1)
  /\ ~RuntimeFailure

(***************************************************************************)
(* TLS options with an unknown minVersion.                                 *)
(***************************************************************************)
UnknownTls(s) ==
  /\ config.sockets[s].kind = "https"
  /\ config.sockets[s].minVersion \notin MinVersions
TlsError(s) ==
  ConfigError("unknownTlsMinVersion", Who("socket", s, 0), config.sockets[s].name)

\* C28: for a socket whose TlsOptions carry a minVersion outside the enum, one
\* configuration error is reported, the startup continues (the fatal promise is rejected
\* only by a failure at run time), and the socket does not serve with a TLS context
\* built from the unknown setting: what it serves, if anything, is the Invalid-Config
\* Service.
C28_UnknownMinVersionPoisons ==
  \A s \in 1..NumSockets :
     (UnknownTls(s) /\ sock[s].listener # "none") =>
       /\ CopiesIn(TlsError(s), errors) = 1
       /\ fatal => RuntimeFailure
       /\ sock[s].accepting => (sock[s].service = InvalidConfigService \/ sock[s].tls = NoTls)

\* An https socket with an unknown minVersion has reported its error and answers a
\* request from its worker, on a port wrapped in a TLS context of kj's default version.
C28_Witness ==
  /\ UnknownTls(1)
  /\ CopiesIn(TlsError(1), errors) = 1
  /\ sock[1].accepting
  /\ sock[1].tls = TlsContext(KjDefaultMinVersion)
  /\ sock[1].service = Service(1)
  /\ req.sock = 1
  /\ req.status = 200
  /\ ~fatal

(***************************************************************************)
(* Request injections against the structural edits.                        *)
(***************************************************************************)
\* The value of the last injection, in the order of the configuration, that names n.
LastInjection(inj, n) ==
  LET last == CHOOSE j \in 1..Len(inj) :
                /\ inj[j].name = n
                /\ \A k \in (j + 1)..Len(inj) : inj[k].name # n
  IN inj[last].value
InjectionsPrevail(inj, headers) ==
  \A n \in InjectedNames(inj) : headers[n] = LastInjection(inj, n)

\* A structural edit and the injections are after the same header: the edit has set or
\* removed a header that an injection names.
EditedAndInjected(o, before) ==
  \/ o.style = "HOST" /\ "Host" \in InjectedNames(o.injectRequest)
  \/ /\ o.style = "HOST" /\ o.forwardedProtoHeader \in InjectedNames(o.injectRequest)
  \/ /\ o.cfBlobHeader \in InjectedNames(o.injectRequest)
     /\ before[o.cfBlobHeader] # None

\* C29: whenever rewriteOutgoingRequest or rewriteIncomingRequest returns a rewritten
\* request, each header that a request injection names has the value of that
\* injection, or is absent if the injection has no value, whatever the Host,
\* forwarded-proto and cfBlob edits did to it; of several injections of one name the
\* last in the order of the configuration decides.  This holds for the request the
\* listener hands to the service as well.
C29_InjectionsLast ==
  /\ (http.pc \in {"rewritten", "restored"} /\ http.outgoing.result = "ok") =>
       InjectionsPrevail(http.options.injectRequest, http.outgoing.headers)
  /\ (http.pc = "restored" /\ http.incoming.result = "ok") =>
       InjectionsPrevail(http.options.injectRequest, http.incoming.headers)
  /\ (Dispatched /\ NeedsRewriteRequest(http.options)) =>
       InjectionsPrevail(http.options.injectRequest, http.dispatch.headers)

\* Both functions have rewritten a request under HOST style whose Host and forwarded-proto
\* edits were after headers that injections name, two injections naming one header.
C29_Witness ==
  /\ http.pc = "restored"
  /\ http.incoming.result = "ok"
  /\ http.options.style = "HOST"
  /\ http.options.forwardedProtoHeader = "X-Forwarded-Proto"
  /\ EditedAndInjected(http.options, http.original.headers)
  /\ http.outgoing.headers["X-Forwarded-Proto"] = "injected"
  /\ http.incoming.headers["X-Forwarded-Proto"] = "injected"
  /\ http.incoming.headers["X-Api-Key"] = "second"

(***************************************************************************)
(* The status of the disk directory service.                               *)
(***************************************************************************)
\* The inputs of the last request: whether its URL parsed, whether its path is blocked,
\* and the node at the path.
DiskUrlParsed == UrlParse(disk.url, "REMOTE_HREF", TRUE, FALSE) # ParseFailure
DiskBlocked == BlockedPath(disk.allowDotfiles, DiskParsedPath)
DiskNode ==
  IF DiskParsedPath \in disk.files \cup Directories THEN "fileOrDirectory"
  ELSE IF DiskParsedPath \in NamedPipes THEN "other"
  ELSE "missing"

\* Responses the service has sent for the last request: none while the body of a PUT is
\* pumped (status 0) and none when the request ended in an exception (status 500).
DiskResponses == IF disk.status \in {0, 500} THEN 0 ELSE 1

ReadStatus ==
  IF DiskBlocked \/ DiskNode = "missing" THEN 404
  ELSE IF DiskNode = "fileOrDirectory" THEN 200
  ELSE 406

\* C30 as stated: the status is a total function of method, writable, blocked path, node
\* found and node type.  GET and HEAD: blocked or missing gives 404, a file or directory
\* 200, any other node 406.  PUT: not writable gives 405, then blocked gives 403,
\* otherwise 204.  Every other method gives 501 whatever the path.  Exactly one response
\* is sent for each request.
C30_StatusTotal ==
  DiskAnswered =>
    LET status == CASE disk.method \in {"GET", "HEAD"} -> ReadStatus
                    [] disk.method = "PUT" -> IF ~disk.writable THEN 405
                                              ELSE IF DiskBlocked THEN 403
                                              ELSE 204
                    [] OTHER -> 501
    IN IF disk.pc = "pumping" THEN status = 204 /\ DiskResponses = 0
       ELSE disk.status = status /\ DiskResponses = 1

\* C30 (amended): for a request whose URL parses, the status is a function of method,
\* writable, blocked path, node found and node type.  GET and HEAD: blocked or missing
\* gives 404, a file or directory 200, any other node 406.  PUT: not writable gives
\* 405, then blocked gives 403; otherwise the file is replaced and 204 is sent once the
\* body has been written, unless the path is empty: the served directory cannot
\* replace itself, and that request ends in an exception.  Every other method gives 501 whatever the path.  A
\* request whose URL does not parse ends in an exception whatever the method.  One
\* response is sent for each request that does not end in an exception, and none for
\* one that does.
C30_StatusPrecedence ==
  DiskAnswered =>
    LET status == IF ~DiskUrlParsed THEN 500
                  ELSE CASE disk.method \in {"GET", "HEAD"} -> ReadStatus
                         [] disk.method = "PUT" ->
                              IF ~disk.writable THEN 405
                              ELSE IF DiskBlocked THEN 403
                              ELSE IF DiskParsedPath = <<>> \/ disk.aborted = "failed" THEN 500
                              ELSE IF disk.aborted = "cancelled" THEN 0
                              ELSE 204
                         [] OTHER -> 501
    IN IF disk.pc = "pumping" THEN status = 204 /\ DiskResponses = 0
       ELSE /\ disk.status = status
            /\ DiskResponses = IF status \in {0, 500} THEN 0 ELSE 1
            /\ status = 204 => disk.replaced = <<DiskParsedPath>>

\* A HEAD of a node that is neither file nor directory has been answered 406.
C30_Witness ==
  /\ DiskAnswered
  /\ disk.method = "HEAD"
  /\ DiskUrlParsed
  /\ ~DiskBlocked
  /\ DiskNode = "other"
  /\ disk.status = 406


\* ---- C31 --------------------------------------------------------------------------
\* The PUT whose body is being pumped, or was: it got as far as replaceFile.
PutTarget == DiskParsedPath
PutBegan ==
  /\ DiskAnswered /\ disk.method = "PUT"
  /\ disk.pc = "pumping" \/ disk.aborted # None \/ disk.replaced # <<>>
PutCommitted == PutBegan /\ disk.replaced # <<>>

\* C31: for a PUT on a writable disk directory service the content of the target
\* changes only at the commit that follows the whole body, and the 204 is sent only
\* after that commit; when the body fails or the request is cancelled the target keeps
\* the content it had (or stays absent) and no 204 is sent; a GET served meanwhile sees
\* the whole old content or the whole new content.
C31_CommitAfterBody ==
  /\ [](PutBegan =>
          /\ disk.writable
          /\ disk.status = 204 <=> PutCommitted
          /\ PutCommitted => /\ disk.pumped = BodyChunks
                             /\ Content(disk, PutTarget) = disk.puts
                             /\ Chunks(disk, PutTarget) = BodyChunks
          /\ ~PutCommitted => Content(disk, PutTarget) = disk.before
          /\ disk.aborted # None => disk.pc = "idle" /\ disk.status # 204
          /\ disk.seen # <<>> =>
               /\ disk.seen[1].chunks = BodyChunks
               /\ disk.seen[1].path = PutTarget =>
                    disk.seen[1].content \in {disk.before, disk.puts})
  /\ [][(\E path \in disk.files \cup disk'.files :
            \/ Content(disk, path) # Content(disk', path)
            \/ Chunks(disk, path) # Chunks(disk', path))
          => /\ disk.pc = "pumping" /\ disk.pumped = BodyChunks
             /\ disk'.pc = "idle" /\ disk'.status = 204
             /\ disk.status # 204]_vars

\* The body of a PUT over an existing file failed part-way, after a GET of that file.
C31_Witness ==
  /\ PutBegan /\ disk.aborted = "failed" /\ disk.pumped = 1
  /\ PutTarget = <<"file.txt">>
  /\ disk.seen # <<>> /\ disk.seen[1].path = PutTarget
  /\ disk.puts = 2 /\ disk.before = 1

\* ---- C32 --------------------------------------------------------------------------
\* What the listener would hand to the service for request m on the connection at hand.
PlanFor(m) ==
  ConnectionRequestPlan(http.options, http.physicalProtocol, http.connCfBlobJson,
                        m.url, m.headers)

\* C32: on a socket with no cfBlobHeader configured the cfBlobJson handed to the
\* service depends on the peer of the connection alone: every request on the
\* connection that reaches the service, whatever its URL and headers, is handed the
\* same cfBlobJson, which is the one made from the peer, the same whatever else the
\* socket's options say; no header of the client sets or changes it.
C32_BlobFromPeerOnly ==
  (Dispatched /\ ~HasCfBlobHeader(http.options)) =>
    /\ http.worker.cfBlobJson = http.dispatch.metadata.cfBlobJson
    /\ \A m \in HttpInbound :
         PlanFor(m).outcome = "startRequest" =>
           PlanFor(m).metadata.cfBlobJson = http.dispatch.metadata.cfBlobJson
    /\ \A o \in HttpOptionsValues :
         ~HasCfBlobHeader(o) =>
           ListenerCfBlob(o, http.peer) = http.dispatch.metadata.cfBlobJson
    /\ \A peer \in HttpPeers :
         (peer.kind = http.peer.kind /\ peer.addr = http.peer.addr
            /\ peer.pid = http.peer.pid /\ peer.uid = http.peer.uid) =>
           ListenerCfBlob(http.options, peer) = http.dispatch.metadata.cfBlobJson

\* A request carrying a blob header of its own has reached the service from a network
\* peer, on a socket without cfBlobHeader.
C32_Witness ==
  /\ Dispatched /\ ~HasCfBlobHeader(http.options)
  /\ http.inbound.headers["X-Cf-Blob"] = "{\"x\":1}"
  /\ http.peer.kind = "network"
  /\ http.worker.cfBlobJson = "{\"clientIp\": \"10.0.0.1:99\"}"


\* ---- C33 --------------------------------------------------------------------------
\* The external service has a cfBlobHeader that none of its request injections names.
BlobHeaderOwned ==
  /\ svc.kind = "external"
  /\ HasCfBlobHeader(svc.options)
  /\ svc.options.cfBlobHeader \notin InjectedNames(svc.options.injectRequest)

\* C33: an external service with a cfBlobHeader that no request injection names sends
\* every request to the origin with that header equal to the cfBlobJson of the request
\* metadata when there is one, and without that header when there is none; what the
\* caller put in that header does not reach the origin.
C33_BlobHeaderFromMetadata ==
  BlobHeaderOwned =>
    \A k \in 1..Len(svc.served) :
      svc.served[k].sent.headers[svc.options.cfBlobHeader]
        = svc.handles[svc.served[k].handle].cfBlobJson

\* A request whose caller had set the header itself has gone to the origin on a handle
\* without cfBlobJson, and another on a handle with one.
C33_Witness ==
  /\ BlobHeaderOwned
  /\ \E k \in 1..Len(svc.served) :
       /\ svc.served[k].inbound.headers["X-Cf-Blob"] = "stale"
       /\ svc.handles[svc.served[k].handle].cfBlobJson = None
       /\ svc.served[k].sent.headers["X-Cf-Blob"] = None
  /\ \E k \in 1..Len(svc.served) :
       /\ svc.served[k].inbound.headers["X-Cf-Blob"] = "stale"
       /\ svc.served[k].sent.headers["X-Cf-Blob"] = "{\"x\":1}"


\* ---- C34 --------------------------------------------------------------------------
\* The listener of a socket and an external service, each with what it answers.
ResponseInit == HttpInit \/ SvcInit
ResponseNext == HttpNext \/ SvcNext
ResponseSpec == ResponseInit /\ [][ResponseNext]_vars

\* The responses services have emitted through send or acceptWebSocket: on the socket,
\* by the service the listener dispatched to; at the external service, by the origin.
\* Each with the options of the rewriter it passed and the headers the service supplied.
Answers ==
  (IF http.pc \in {"responded", "failed"} /\ http.response.verb # "sendError"
     THEN {[options |-> http.options, supplied |-> http.supplied, response |-> http.response]}
     ELSE {})
  \cup {[options |-> svc.options, supplied |-> svc.served[k].supplied,
         response |-> svc.served[k].response] :
          k \in {j \in 1..Len(svc.served) : svc.served[j].response # NoResponse}}

\* C34: when response injections are configured for a socket or an external service,
\* every response the service emits through send, and every WebSocket it accepts
\* through acceptWebSocket, reaches the response downstream with the injections
\* applied, and the headers object the service supplied is not modified; when none is
\* configured the headers are passed through unchanged.
C34_ResponseInjections ==
  \A a \in Answers :
    /\ a.response.verb \in {"send", "acceptWebSocket"}
    /\ a.response.object = a.supplied
    /\ a.response.status = IF a.response.verb = "send" THEN 200 ELSE 101
    /\ \A n \in HeaderUniverse :
         a.response.received[n] = Injected(a.options.injectResponse, n, a.supplied[n])

\* A socket's service has accepted a WebSocket, or an origin has answered by send,
\* with a header of its own that the configured response injection replaces.
C34_Witness ==
  \E a \in Answers :
    /\ a.options.injectResponse # <<>>
    /\ a.supplied["X-Api-Key"] = "theirs"
    /\ a.response.received["X-Api-Key"] = "ours"
    /\ \/ http.pc = "responded" /\ a.response.verb = "acceptWebSocket"
       \/ svc.kind = "external" /\ a.response.verb = "send"

\* ---- C40 --------------------------------------------------------------------------
\* The listener has answered the request itself.
ListenerAnswered == http.pc \in {"refused", "failed"} /\ http.response.verb = "sendError"
\* The service has answered the request.
ServiceAnswered ==
  http.pc \in {"responded", "failed"} /\ http.response.verb \in {"send", "acceptWebSocket"}

\* C40: on a socket with response injections configured, the answers the listener
\* makes itself, the 400 for a request that cannot be rewritten and the 500 for an
\* uncaught exception, go out on the unwrapped response and carry none of the
\* injections, while every response of the service carries them.
C40_ListenerAnswersUnwrapped ==
  NeedsRewriteResponse(http.options) =>
    /\ ListenerAnswered =>
         /\ http.response.status = IF http.pc = "refused" THEN 400 ELSE 500
         /\ http.pc = "refused" <=> http.dispatch.outcome = "sendError400"
         /\ \A n \in HeaderUniverse : http.response.received[n] = None
    /\ ServiceAnswered =>
         \A n \in InjectedNames(http.options.injectResponse) :
           http.response.received[n] = Injected(http.options.injectResponse, n, None)
    /\ http.pc \in {"responded", "refused"} => ListenerAnswered \/ ServiceAnswered

\* A request without Host was answered 400 by a HOST-style listener that has response
\* injections, and the answer has none of them.
C40_Witness ==
  /\ NeedsRewriteResponse(http.options)
  /\ ListenerAnswered
  /\ http.response.status = 400
  /\ http.response.received["X-Api-Key"] = None

\* ---- C35 --------------------------------------------------------------------------
\* C35: the failure of a task in a worker's waitUntil task set is only logged.  The
\* step in which it fails leaves the fatal promise, the promise of Server::run, the
\* tasks of Server::run, the sockets and the request in progress as they were, so it
\* fails neither the request that spawned it nor any other; and the worker goes on
\* handing out a WorkerInterface to every later startRequest.
C35_WaitUntilFailureOnlyLogged ==
  /\ [][(waitUntilTasks'.logged # waitUntilTasks.logged) =>
          (/\ fatal' = fatal /\ runPromise' = runPromise /\ req' = req
           /\ promise' = promise /\ sock' = sock /\ conn' = conn
           /\ ownServices' = ownServices /\ errors' = errors)]_vars
  /\ [](\A h \in waitUntilTasks.logged :
          /\ h \in DOMAIN ownServices
          /\ ownServices[h].kind = "worker"
          /\ StartRequest(ownServices, h, Metadata(None)) # Thrown)

\* A task of a worker has failed and been logged; a request to that worker has been
\* answered 200, nothing is fatal and Server::run's promise is still pending.
C35_Witness ==
  /\ \E h \in waitUntilTasks.logged :
       /\ req.state = "done" /\ req.status = 200 /\ ~req.threw
       /\ req.chain # <<>> /\ req.chain[1].service = h
  /\ ~fatal
  /\ runPromise = "pending"


\* ---- C36 --------------------------------------------------------------------------
\* The construction future of declared service i has rejected.
ConstructionRejected(i) == promise[i].state = "rejected"
\* Lookups by owner o, socket s and worker j name the service declared at i.
LookupNames(o, i) == lookup[o].state # "idle" /\ lookup[o].ref.name = config.services[i].name
SocketNamesService(s, i) == config.sockets[s].service.name = config.services[i].name
WorkerNames(j, i) ==
  /\ IsWorker(j)
  /\ config.services[i].name
       \in {config.services[j].globalOutbound.name}
             \cup {config.services[j].bindings[k].ref.name : k \in LookupBindings(j)}
LookupOver(o) == lookup[o].state \in {"done", "rejected"}

\* C36 as stated: when the construction future of a declared service rejects, every
\* lookup of that service's name rejects, and no socket that references the name
\* starts accepting.
C36_EveryLookupOfTheNameRejects ==
  \A i \in 1..NumServices :
    ConstructionRejected(i) =>
      /\ \A o \in Owners : (LookupNames(o, i) /\ LookupOver(o)) => lookup[o].state = "rejected"
      /\ \A s \in 1..NumSockets : SocketNamesService(s, i) => ~sock[s].accepting

\* C36: when the construction future of a declared service rejects, the fatal promise
\* is rejected and the promise of Server::run rejects, never fulfils, whether or not a
\* socket or worker references the service; if the service is the first declared under
\* its name, every lookup of that name rejects, no socket that references it starts
\* accepting, and no worker that references it is constructed.
C36_ConstructionFailure ==
  /\ [](\A i \in 1..NumServices :
          ConstructionRejected(i) =>
            /\ fatal
            /\ runPromise # "fulfilled"
            /\ FirstDeclaration(config.services[i].name) = i =>
                 /\ \A o \in Owners :
                      (LookupNames(o, i) /\ LookupOver(o)) => lookup[o].state = "rejected"
                 /\ \A s \in 1..NumSockets : SocketNamesService(s, i) => ~sock[s].accepting
                 /\ \A j \in 1..NumServices :
                      WorkerNames(j, i) => promise[j].state # "resolved")
  /\ ((\E i \in 1..NumServices : ConstructionRejected(i)) ~> runPromise = "rejected")

\* The address of an external service that only a socket references did not resolve:
\* the socket's lookup has rejected, the socket does not accept, and the promise of
\* Server::run is rejected.
C36_Witness ==
  \E i \in 1..NumServices, s \in 1..NumSockets :
    /\ config.services[i].kind = "external"
    /\ ConstructionRejected(i)
    /\ FirstDeclaration(config.services[i].name) = i
    /\ SocketNamesService(s, i)
    /\ lookup[Owner("socket", s)].state = "rejected"
    /\ ~sock[s].accepting
    /\ \A j \in 1..NumServices : ~WorkerNames(j, i)
    /\ runPromise = "rejected"

\* ---- C37 --------------------------------------------------------------------------
\* C37: the accept loop of a listener never waits for a connection's requests to
\* finish.  While the loop runs it can accept the next connection whatever the state of
\* the connections it accepted before, every open connection can have its request
\* handed to the service whatever the others are doing, and a connection's request
\* starting, completing or failing changes neither the loop nor any other connection.
C37_AcceptLoopNeverWaits ==
  /\ [](/\ (httpListener.accepting /\ Len(httpListener.conns) < MaxConns) =>
             \A peer \in ServerPeers : ENABLED ListenerAccept(peer)
        /\ \A c \in 1..Len(httpListener.conns) :
             httpListener.conns[c].state = "open" => ENABLED ListenerRequest(c))
  /\ [][\A c \in 1..Len(httpListener.conns) :
          (httpListener'.conns[c] # httpListener.conns[c]) =>
            /\ httpListener'.accepting = httpListener.accepting
            /\ Len(httpListener'.conns) = Len(httpListener.conns)
            /\ \A d \in 1..Len(httpListener.conns) :
                 d # c => httpListener'.conns[d] = httpListener.conns[d]]_vars

\* The request of the first connection is still running and the second connection has
\* failed; a third connection, accepted after them, has been served, and the loop is
\* still accepting.
C37_Witness ==
  /\ httpListener.accepting
  /\ Len(httpListener.conns) = 3
  /\ httpListener.conns[1].state = "running"
  /\ httpListener.conns[2].state = "failed"
  /\ httpListener.conns[3].state = "served"

(***************************************************************************)
(* Designators without an entrypoint that name a worker.                   *)
(***************************************************************************)
\* The designators without an entrypoint whose service, declared first at index t,
\* is a worker: of socket s, and of the bindings of worker i.
SocketAsksWorker(s) ==
  /\ config.sockets[s].service.entrypoint = None
  /\ Declared(config.sockets[s].service.name)
  /\ IsWorker(FirstDeclaration(config.sockets[s].service.name))
BindingAsksWorker(i, k) ==
  /\ k \in LookupBindings(i)
  /\ config.services[i].bindings[k].ref.entrypoint = None
  /\ Declared(config.services[i].bindings[k].ref.name)
  /\ IsWorker(FirstDeclaration(config.services[i].bindings[k].ref.name))

\* The lookup of designator d by `who` gave the worker itself and reported nothing.
WholeWorkerOutcome(d, who, result) ==
  /\ result = Service(FirstDeclaration(d.name))
  /\ \A x \in BagToSet(errors) : ~(x.who = who /\ x.name = d.name)

\* C38: a lookupService without an entrypoint name whose service is a worker returns
\* that worker and reports no configuration error, whether or not the script of the
\* worker has a default handler: the flag the validation records is read by no lookup.
C38_DefaultEntrypointNotConsulted ==
  /\ \A s \in 1..NumSockets :
       (SocketAsksWorker(s) /\ lookup[Owner("socket", s)].state = "done") =>
         WholeWorkerOutcome(config.sockets[s].service, Who("socket", s, 0),
                            lookup[Owner("socket", s)].result)
  /\ \A i \in 1..NumServices :
       (IsWorker(i) /\ promise[i].state = "resolved") =>
         \A k \in 1..Len(config.services[i].bindings) :
           BindingAsksWorker(i, k) =>
             WholeWorkerOutcome(config.services[i].bindings[k].ref, Who("worker", i, k),
                                ownServices[Service(i)].subrequestChannels[
                                  3 + LookupRank(i, k)])

\* A socket and a binding have both been given the worker "c", whose script has no
\* default handler, and another socket the worker "a", whose script has one.
C38_Witness ==
  /\ \E s \in 1..NumSockets :
       /\ SocketAsksWorker(s)
       /\ ~config.services[FirstDeclaration(config.sockets[s].service.name)].hasDefaultEntrypoint
       /\ lookup[Owner("socket", s)].state = "done"
       /\ lookup[Owner("socket", s)].result = Service(3)
  /\ \E s \in 1..NumSockets :
       /\ SocketAsksWorker(s)
       /\ config.services[FirstDeclaration(config.sockets[s].service.name)].hasDefaultEntrypoint
       /\ lookup[Owner("socket", s)].state = "done"
       /\ lookup[Owner("socket", s)].result = Service(1)
  /\ \E i \in 1..NumServices, k \in 1..3 :
       /\ IsWorker(i) /\ promise[i].state = "resolved"
       /\ k <= Len(config.services[i].bindings)
       /\ BindingAsksWorker(i, k)
       /\ ~config.services[3].hasDefaultEntrypoint
       /\ ownServices[Service(i)].subrequestChannels[3 + LookupRank(i, k)] = Service(3)


(***************************************************************************)
(* startSubrequest and the channel table.                                  *)
(***************************************************************************)
\* The channel table of the worker that made the recorded startSubrequest.
SubrequestTable == ownServices[req.subrequest.by].subrequestChannels
SubrequestRecorded == req.subrequest # NoSubrequest

\* C39: a startSubrequest of a worker whose channel number is greater than or equal to
\* the size of the worker's channel table fails with the invalid-channel error and
\* invokes startRequest on no service, so that no WorkerInterface comes of it; with a
\* number inside the table it invokes startRequest exactly once, on the service stored
\* at that index and with the metadata the caller supplied.
C39_StartSubrequest ==
  /\ [](SubrequestRecorded =>
          IF req.subrequest.channel >= Len(SubrequestTable)
            THEN /\ req.subrequest.error = "invalid subrequest channel number"
                 /\ req.subrequest.invoked = <<>>
            ELSE /\ req.subrequest.error = None
                 /\ Len(req.subrequest.invoked) = 1
                 /\ req.subrequest.invoked[1].on =
                      SubrequestTable[req.subrequest.channel + 1]
                 /\ req.subrequest.invoked[1].metadata = req.subrequest.metadata)
  /\ [][\A channel \in 0..MaxChannel, cf \in {None, "caller"} :
          WorkerSubrequestWith(channel, Metadata(cf)) =>
            /\ req'.subrequest.channel = channel
            /\ req'.subrequest.metadata = Metadata(cf)
            /\ req'.subrequest.by = req.chain[Len(req.chain)].service
            /\ (channel >= Len(ownServices[req.chain[Len(req.chain)].service]
                                  .subrequestChannels)) =>
                 (req'.chain = req.chain /\ req'.failedSubrequests = 1)]_vars

\* The worker "a" has had a subrequest through its last channel, with a metadata of
\* its own, reach the worker "c", and "c", whose table has the two entries of the
\* global outbound only, has then asked for a channel beyond its table.
C39_Witness ==
  /\ Len(req.chain) = 2
  /\ req.chain[2].kind = "worker"
  /\ req.chain[2].service = Service(3)
  /\ req.chain[2].cfBlobJson = "caller"
  /\ req.chain[1].cfBlobJson # "caller"
  /\ req.subrequest.by = Service(3)
  /\ req.subrequest.channel > Len(SubrequestTable)
  /\ req.subrequest.error = "invalid subrequest channel number"
  /\ req.subrequest.invoked = <<>>
  /\ req.failedSubrequests = 1

====
